---- MODULE Spec2Model ----
(***************************************************************************)
(* Model of the review orchestration engine of ai-code-reviewer:           *)
(* CodeReviewer.review() (src/core/reviewer.ts), the notification manager  *)
(* (src/notifications/default.ts) and the model providers                  *)
(* (src/ai/openai.ts, src/ai/ollama.ts).                                   *)
(*                                                                         *)
(* A run of review() is a sequence of awaited external calls.  Every       *)
(* external call is one action; its outcome (a result or a failure) is an  *)
(* input drawn with \E.  The variable calls is the sequence of external    *)
(* calls the run has made, each with its outcome.                          *)
(***************************************************************************)
EXTENDS Integers, Sequences, FiniteSets, TLC

VARIABLES
    config,         \* the AiReviewerConfig the reviewer was constructed with
    pc,             \* position of review(): Idle, FetchingChanges, ... Done, Raised
    npc,            \* position inside the notification manager: none, comments, wecom
    diffs,          \* result of platform.getCodeDiffs()
    filteredDiffs,  \* result of filterDiffs(diffs)
    idx,            \* index of the for-of loop over filteredDiffs (1-based)
    issueIdx,       \* index of the for-of loop over result.issues (1-based)
    results,        \* the local results array of review()
    summary,        \* the text generateSummary returned
    returned,       \* the promise of review(): pending, or resolved with a result list
    error,          \* the error review() rejected with, "None" if none
    calls,          \* external calls made so far, in order, with their outcome
    platform,       \* the Platform variant: gitlab, github or local
    inflight,       \* the requests that were started and have not settled yet
    options,        \* the CodeReviewOptions and credentials given to the constructor
    content,        \* the raw model text given to parseReviewResponse
    parsed          \* the value an operation under study produced

\* the state of a run of review()
run == <<config, pc, npc, diffs, filteredDiffs, idx, issueIdx, results,
         summary, returned, error, calls>>

\* the state the operations studied on their own add to it
ext == <<platform, inflight, options, content, parsed>>
run_but_pc == <<config, npc, diffs, filteredDiffs, idx, issueIdx, results, summary, returned, error, calls>>

vars == <<run, ext>>

----------------------------------------------------------------------------
(* Bounds *)

\* largest number of files getCodeDiffs returns
MaxFiles == 3

----------------------------------------------------------------------------
(* Paths are sequences of characters *)

yarn_lock == <<"y", ".", "l">>
dist_a    == <<"d", "/", "a">>
src_b     == <<"b">>
lock_bak  == <<"y", ".", "l", ".", "k">>
src_c     == <<"c">>
src_e     == <<"e">>

\* a CodeDiff; the contents and the diff text play no part in the control flow
CodeDiff(old, new) == [oldPath |-> old, newPath |-> new]

AllFiles ==
    << CodeDiff(src_c, src_b), CodeDiff(yarn_lock, yarn_lock),
       CodeDiff(dist_a, dist_a), CodeDiff(lock_bak, lock_bak),
       CodeDiff(src_c, src_c), CodeDiff(src_e, src_e) >>

\* the ChangeSets the platform may return: the first n files of the review unit
ChangeSets == { SubSeq(AllFiles, 1, n) : n \in 0..MaxFiles }

----------------------------------------------------------------------------
(* Optional configuration lists: string[] | undefined *)

Undefined == [defined |-> FALSE, v |-> <<>>]
Some(l)   == [defined |-> TRUE, v |-> l]

RECURSIVE replace(_, _, _)
\* String.prototype.replace with a global pattern of one character
replace(s, ch, by) ==
    IF s = <<>> THEN <<>>
    ELSE (IF Head(s) = ch THEN by ELSE <<Head(s)>>) \o replace(Tail(s), ch, by)

\* pattern.replace(/\./g, '\\.').replace(/\*/g, '.*'): the source text of
\* the regular expression; no other character of the pattern is escaped
regexPattern(pattern) ==
    replace(replace(pattern, ".", <<"\\", ".">>), "*", <<".", "*">>)

\* the quantifiers of the regular expression syntax that occur in the
\* patterns explored
Quantifiers == {"*", "+"}

RECURSIVE RegExpValid(_)
\* new RegExp(source) throws a SyntaxError for a quantifier with nothing to
\* repeat and for a backslash at the end
RegExpValid(src) ==
    IF src = <<>> THEN TRUE
    ELSE IF Head(src) \in Quantifiers THEN FALSE
    ELSE IF Head(src) = "\\"
         THEN /\ Len(src) >= 2
              /\ LET rest == SubSeq(src, 3, Len(src)) IN
                 RegExpValid(IF rest # <<>> /\ Head(rest) \in Quantifiers
                             THEN Tail(rest) ELSE rest)
         ELSE LET rest == Tail(src) IN
              RegExpValid(IF rest # <<>> /\ Head(rest) \in Quantifiers
                          THEN Tail(rest) ELSE rest)

RECURSIVE RegExp(_)
\* new RegExp(source): the atoms of a valid source, each with its quantifier:
\* "\c" is the character c, "." is any character, any other character is
\* itself; a following "*" or "+" repeats the atom
RegExp(src) ==
    IF src = <<>> THEN <<>>
    ELSE LET esc  == Head(src) = "\\"
             atom == IF esc THEN [dot |-> FALSE, c |-> src[2]]
                     ELSE [dot |-> Head(src) = ".", c |-> Head(src)]
             rest == SubSeq(src, IF esc THEN 3 ELSE 2, Len(src))
             q    == IF rest # <<>> /\ Head(rest) \in Quantifiers THEN Head(rest) ELSE "1"
         IN << [dot |-> atom.dot, c |-> atom.c, q |-> q] >>
            \o RegExp(IF q = "1" THEN rest ELSE Tail(rest))

RECURSIVE RegExpTest(_, _)
\* new RegExp(`^${regexPattern}$`).test(filePath), re the atoms of the
\* expression between the anchors
RegExpTest(re, s) ==
    IF re = <<>> THEN s = <<>>
    ELSE LET h == Head(re)
             fits == s # <<>> /\ (h.dot \/ Head(s) = h.c)
         IN CASE h.q = "1" -> fits /\ RegExpTest(Tail(re), Tail(s))
              [] h.q = "*" -> RegExpTest(Tail(re), s) \/ (fits /\ RegExpTest(re, Tail(s)))
              [] OTHER -> fits /\ RegExpTest(<< [h EXCEPT !.q = "*"] >> \o Tail(re), Tail(s))

includes(pattern, ch) == \E i \in 1..Len(pattern) : pattern[i] = ch

matchPatterns(filePath, patterns) ==
    \E k \in 1..Len(patterns) :
        IF includes(patterns[k], "*")
        THEN \E re \in { RegExp(regexPattern(patterns[k])) } : RegExpTest(re, filePath)
        ELSE filePath = patterns[k]

startsWith(filePath, prefix) ==
    /\ Len(prefix) <= Len(filePath)
    /\ SubSeq(filePath, 1, Len(prefix)) = prefix

\* a filter whose include list re-admits a path whatever the ignore rules say
keepDiff_IncludeWins(review, diff) ==
    LET filePath == diff.newPath IN
    IF review.includePatterns.defined /\ Len(review.includePatterns.v) > 0
       /\ matchPatterns(filePath, review.includePatterns.v)
    THEN TRUE
    ELSE IF review.ignoreFiles.defined /\ matchPatterns(filePath, review.ignoreFiles.v)
    THEN FALSE
    ELSE IF review.ignorePaths.defined
            /\ \E k \in 1..Len(review.ignorePaths.v) :
                  startsWith(filePath, review.ignorePaths.v[k])
    THEN FALSE
    ELSE IF review.includePatterns.defined /\ Len(review.includePatterns.v) > 0
    THEN FALSE
    ELSE IF review.excludePatterns.defined
            /\ matchPatterns(filePath, review.excludePatterns.v)
    THEN FALSE
    ELSE TRUE

\* the predicate of diffs.filter(...) in filterDiffs
keepDiff(review, diff) ==
    LET filePath == diff.newPath IN
    IF review.ignoreFiles.defined /\ matchPatterns(filePath, review.ignoreFiles.v)
    THEN FALSE
    ELSE IF review.ignorePaths.defined
            /\ \E k \in 1..Len(review.ignorePaths.v) :
                  startsWith(filePath, review.ignorePaths.v[k])
    THEN FALSE
    ELSE IF review.includePatterns.defined /\ Len(review.includePatterns.v) > 0
            /\ ~ matchPatterns(filePath, review.includePatterns.v)
    THEN FALSE
    ELSE IF review.excludePatterns.defined
            /\ matchPatterns(filePath, review.excludePatterns.v)
    THEN FALSE
    ELSE TRUE

RECURSIVE filterSeq(_, _)
filterSeq(review, s) ==
    IF s = <<>> THEN <<>>
    ELSE IF keepDiff(review, Head(s))
         THEN <<Head(s)>> \o filterSeq(review, Tail(s))
         ELSE filterSeq(review, Tail(s))

RECURSIVE reverse(_)
reverse(s) == IF s = <<>> THEN <<>> ELSE reverse(Tail(s)) \o <<Head(s)>>

\* a filter that collects the kept files last to first
filterDiffs_Reversed(review, ds) == reverse(filterSeq(review, ds))

filterDiffs(review, ds) == filterSeq(review, ds)

\* the review sections of the configurations explored
ReviewConfigs ==
    { [ignoreFiles |-> Undefined, ignorePaths |-> Undefined,
       includePatterns |-> Undefined, excludePatterns |-> Undefined],
      [ignoreFiles |-> Some(<< <<"*", ".", "l">> >>),
       ignorePaths |-> Some(<< <<"d", "/">> >>),
       includePatterns |-> Undefined, excludePatterns |-> Undefined],
      [ignoreFiles |-> Some(<< <<"*">> >>), ignorePaths |-> Some(<<>>),
       includePatterns |-> Some(<<>>), excludePatterns |-> Some(<<>>)] }

Configs ==
    [ provider : {"openai", "ollama"},
      gitlab_comment : BOOLEAN,
      wecom : [enabled : BOOLEAN, webhook : BOOLEAN],
      review : ReviewConfigs ]

----------------------------------------------------------------------------
(* Model providers *)

\* the issue lists a parsed model response may carry; line 0 is "no line"
IssueLists ==
    { <<>>,
      << [line |-> 0, severity |-> "info"], [line |-> 7, severity |-> "error"] >> }

\* the object parseReviewResponse returns: file is the filePath argument
ReviewResult(filePath, issues) ==
    [file |-> filePath, issues |-> issues, summary |-> "summary"]

Call(op, file, line, res) == [op |-> op, file |-> file, line |-> line, res |-> res]

\* outcomes of one request to a model backend
Responses == {"ok", "empty", "error"}

\* The requests one reviewCode / generateSummary invocation makes and what
\* it yields: out = "content" (non-empty text), "blank" (empty text) or
\* "throw".  OpenAI makes one chat.completions request and throws on a
\* failure and on an empty content.
OpenAIInvoke_Retry ==
    { [reqs |-> << <<"chat.completions", r>> >>,
       out |-> IF r = "ok" THEN "content" ELSE "throw"] : r \in {"ok", "empty"} }
    \cup
    { [reqs |-> << <<"chat.completions", "error">>, <<"chat.completions", r>> >>,
       out |-> IF r = "ok" THEN "content" ELSE "throw"] : r \in Responses }

OpenAIInvoke ==
    { [reqs |-> << <<"chat.completions", r>> >>,
       out |-> IF r = "ok" THEN "content" ELSE "throw"] : r \in Responses }

\* Ollama first posts to /api/generate and returns its response text,
\* whatever it is; when that request fails it posts to /api/chat.
OllamaInvoke(emptyChatThrows) ==
    { [reqs |-> << <<"api/generate", r>> >>,
       out |-> IF r = "ok" THEN "content" ELSE "blank"] : r \in {"ok", "empty"} }
    \cup
    { [reqs |-> << <<"api/generate", "error">>, <<"api/chat", r>> >>,
       out |-> CASE r = "ok" -> "content"
                 [] r = "empty" -> IF emptyChatThrows THEN "throw" ELSE "blank"
                 [] OTHER -> "throw"] : r \in Responses }

reviewCode(provider) ==
    IF provider = "openai" THEN OpenAIInvoke ELSE OllamaInvoke(TRUE)

generateSummary(provider) ==
    IF provider = "openai" THEN OpenAIInvoke ELSE OllamaInvoke(FALSE)

RequestCalls(reqs, file) ==
    [i \in 1..Len(reqs) |-> Call(reqs[i][1], file, 0, reqs[i][2])]

----------------------------------------------------------------------------
(* Error handling: what each catch block does with the error it catches *)

\* a catch of review() that logs and returns an empty list
reviewCatch_Swallow(err) == "swallow"

\* catch of review(): consola.error, then throw error
reviewCatch(err) == "rethrow"

\* a catch that logs and rethrows, as the platforms' own catch blocks do
notificationCatch_Rethrow(err) == "rethrow"

\* catch of sendReviewNotification and of sendSummaryNotification:
\* consola.error only
notificationCatch(err) == "swallow"

\* catch inside sendWecomNotification: consola.error only
wecomCatch(err) == "swallow"

\* the guard inverted
hasReviewResult_Never(reviewResult) == FALSE

\* if (reviewResult): a ReviewResult object is always truthy
hasReviewResult(reviewResult) == TRUE

\* the guard dropped
shouldSummarize_Always(rs) == TRUE

\* if (results.length > 0)
shouldSummarize(rs) == Len(rs) > 0

\* the guard dropped
shouldNotifySummary_Always(text) == TRUE

\* if (summary): a non-empty string is truthy
shouldNotifySummary(text) == text # ""

\* if (this.config.gitlab_comment), guard of the comment loop of
\* sendReviewNotification
commentsEnabled(cfg) == cfg.gitlab_comment

\* sendSummaryNotification calls platform.submitReviewSummary unguarded
summaryCommentEnabled(cfg) == TRUE

\* if (this.config.wecom?.enabled && this.config.wecom.webhook)
wecomEnabled(cfg) == cfg.wecom.enabled /\ cfg.wecom.webhook

\* results.unshift(reviewResult)
push_Unshift(rs, r) == <<r>> \o rs

\* results.push(reviewResult)
push(rs, r) == Append(rs, r)

----------------------------------------------------------------------------
(* CodeReviewer.review() *)

\* the settled value of the promise review() returns
Pending == [resolved |-> FALSE, value |-> <<>>]
Resolved(v) == [resolved |-> TRUE, value |-> v]

ModelOps == {"reviewCode", "generateSummary", "chat.completions", "api/generate", "api/chat"}
FileNotifyOps == {"sendReviewNotification", "submitReviewComment", "wecom"}
SummaryNotifyOps == {"sendSummaryNotification", "submitReviewSummary", "wecomSummary"}
PlatformCommentOps == {"submitReviewComment", "submitReviewSummary"}

Init ==
    /\ config \in Configs
    /\ pc = "Idle"
    /\ npc = "none"
    /\ diffs = <<>>
    /\ filteredDiffs = <<>>
    /\ idx = 1
    /\ issueIdx = 1
    /\ results = <<>>
    /\ summary = ""
    /\ returned = Pending
    /\ error = "None"
    /\ calls = <<>>
    /\ platform = "gitlab"
    /\ inflight = {}
    /\ options = <<>>
    /\ content = <<>>
    /\ parsed = <<>>

\* review() is called and awaits platform.getCodeDiffs()
Review ==
    /\ UNCHANGED ext
    /\ pc = "Idle"
    /\ pc' = "FetchingChanges"
    /\ UNCHANGED <<config, npc, diffs, filteredDiffs, idx, issueIdx, results,
                   summary, returned, error, calls>>

\* getCodeDiffs resolves; an empty list ends the run
GetCodeDiffsReturn ==
    /\ UNCHANGED ext
    /\ pc = "FetchingChanges"
    /\ \E cs \in ChangeSets :
        /\ diffs' = cs
        /\ calls' = Append(calls, Call("getCodeDiffs", <<>>, 0, "ok"))
        /\ IF Len(cs) = 0
           THEN pc' = "Done" /\ returned' = Resolved(<<>>)
           ELSE pc' = "Filtering" /\ returned' = returned
    /\ UNCHANGED <<config, npc, filteredDiffs, idx, issueIdx, results,
                   summary, error>>

\* getCodeDiffs rejects; the catch block of review() handles the error
GetCodeDiffsFail ==
    /\ UNCHANGED ext
    /\ pc = "FetchingChanges"
    /\ calls' = Append(calls, Call("getCodeDiffs", <<>>, 0, "error"))
    /\ IF reviewCatch("FetchError") = "rethrow"
       THEN error' = "FetchError" /\ pc' = "Raised" /\ returned' = returned
       ELSE error' = error /\ pc' = "Done" /\ returned' = Resolved(<<>>)
    /\ UNCHANGED <<config, npc, diffs, filteredDiffs, idx, issueIdx, results,
                   summary>>

\* const filteredDiffs = this.filterDiffs(diffs); const results = []
FilterDiffs ==
    /\ UNCHANGED ext
    /\ pc = "Filtering"
    /\ filteredDiffs' = filterDiffs(config.review, diffs)
    /\ results' = <<>>
    /\ idx' = 1
    /\ pc' = "ReviewingFiles"
    /\ UNCHANGED <<config, npc, diffs, issueIdx, summary, returned, error, calls>>

nextIndex_Stay(i) == i

\* for (const diff of filteredDiffs): the iteration moves to the next file
nextIndex(i) == i + 1

\* where sendReviewNotification starts for a result
ReviewNotificationEntry(result) ==
    IF commentsEnabled(config) /\ Len(result.issues) > 0 THEN "comments" ELSE "wecom"

\* await this.aiProvider.reviewCode(diff); on a result, results.push and
\* the call of sendReviewNotification
ReviewCode ==
    /\ UNCHANGED ext
    /\ pc = "ReviewingFiles"
    /\ npc = "none"
    /\ idx <= Len(filteredDiffs)
    /\ LET diff == filteredDiffs[idx] IN
       \E inv \in reviewCode(config.provider) :
          LET made == <<Call("reviewCode", diff.newPath, 0,
                             IF inv.out = "throw" THEN "error" ELSE "ok")>>
                      \o RequestCalls(inv.reqs, diff.newPath)
          IN
          IF inv.out = "throw"
          THEN /\ calls' = calls \o made
               /\ IF reviewCatch("ModelError") = "rethrow"
                  THEN error' = "ModelError" /\ pc' = "Raised" /\ returned' = returned
                  ELSE error' = error /\ pc' = "Done" /\ returned' = Resolved(<<>>)
               /\ UNCHANGED <<results, npc, issueIdx, idx>>
          ELSE \E issues \in (IF inv.out = "blank" THEN {<<>>} ELSE IssueLists) :
                 LET reviewResult == ReviewResult(diff.newPath, issues) IN
                 IF hasReviewResult(reviewResult)
                 THEN /\ results' = push(results, reviewResult)
                      /\ calls' = calls \o made
                            \o <<Call("sendReviewNotification", diff.newPath, 0, "ok")>>
                      /\ npc' = ReviewNotificationEntry(reviewResult)
                      /\ issueIdx' = 1
                      /\ UNCHANGED <<error, pc, returned, idx>>
                 ELSE /\ calls' = calls \o made
                      /\ idx' = nextIndex(idx)
                      /\ UNCHANGED <<results, npc, issueIdx, error, pc, returned>>
    /\ UNCHANGED <<config, diffs, filteredDiffs, summary>>

\* sendReviewNotification: one platform.submitReviewComment per issue.
\* A rejected call leaves the try block: the catch of sendReviewNotification
\* handles it and the notification returns, so the loop of review() moves
\* to the next file.
SubmitReviewComment ==
    /\ UNCHANGED ext
    /\ pc = "ReviewingFiles"
    /\ npc = "comments"
    /\ LET result == results[Len(results)]
           issue == result.issues[issueIdx]
       IN
       /\ issueIdx <= Len(result.issues)
       /\ \E res \in {"ok", "error"} :
            /\ calls' = Append(calls, Call("submitReviewComment",
                                           filteredDiffs[idx].newPath, issue.line, res))
            /\ IF res = "ok"
               THEN /\ IF issueIdx < Len(result.issues)
                       THEN issueIdx' = issueIdx + 1 /\ UNCHANGED <<npc, idx>>
                       ELSE npc' = "wecom" /\ UNCHANGED <<issueIdx, idx>>
                    /\ UNCHANGED <<pc, error>>
               ELSE IF notificationCatch("CommentError") = "swallow"
                    THEN /\ npc' = "none"
                         /\ idx' = nextIndex(idx)
                         /\ UNCHANGED <<issueIdx, pc, error>>
                    ELSE /\ npc' = "none"
                         /\ error' = "CommentError"
                         /\ pc' = "Raised"
                         /\ UNCHANGED <<issueIdx, idx>>
    /\ UNCHANGED <<config, diffs, filteredDiffs, results, summary, returned>>

\* sendWecomNotification(title, content): returns without a request when no
\* webhook is configured; a failed POST is handled by its own catch.
\* Yields the calls made and the error that leaves it ("None" if none).
sendWecomNotification(op, title, res) ==
    IF ~ config.wecom.webhook
    THEN [made |-> <<>>, err |-> "None"]
    ELSE [made |-> <<Call(op, title, 0, res)>>,
          err |-> IF res = "error" /\ wecomCatch("WebhookError") = "rethrow"
                  THEN "WebhookError" ELSE "None"]

\* sendReviewNotification: the webhook part, then the notification returns
SendReviewWecom ==
    /\ UNCHANGED ext
    /\ pc = "ReviewingFiles"
    /\ npc = "wecom"
    /\ \E res \in {"ok", "error"} :
         LET w == IF wecomEnabled(config)
                  THEN sendWecomNotification("wecom", filteredDiffs[idx].newPath, res)
                  ELSE [made |-> <<>>, err |-> "None"]
         IN
         /\ calls' = calls \o w.made
         /\ npc' = "none"
         /\ IF w.err # "None" /\ notificationCatch(w.err) = "rethrow"
            THEN error' = w.err /\ pc' = "Raised" /\ idx' = idx
            ELSE error' = error /\ pc' = pc /\ idx' = nextIndex(idx)
    /\ UNCHANGED <<config, diffs, filteredDiffs, issueIdx, results, summary, returned>>

\* the for-of loop is exhausted: if (results.length > 0) summarize, else return
LoopExit ==
    /\ UNCHANGED ext
    /\ pc = "ReviewingFiles"
    /\ npc = "none"
    /\ idx > Len(filteredDiffs)
    /\ IF shouldSummarize(results)
       THEN pc' = "Summarizing" /\ returned' = returned
       ELSE pc' = "Done" /\ returned' = Resolved(results)
    /\ UNCHANGED <<config, npc, diffs, filteredDiffs, idx, issueIdx, results,
                   summary, error, calls>>

\* where sendSummaryNotification starts
SummaryNotificationEntry ==
    IF summaryCommentEnabled(config) THEN "comments" ELSE "wecom"

\* const summary = await this.aiProvider.generateSummary(results);
\* if (summary) the call of sendSummaryNotification
GenerateSummary ==
    /\ UNCHANGED ext
    /\ pc = "Summarizing"
    /\ \E inv \in generateSummary(config.provider) :
          LET made == <<Call("generateSummary", <<>>, 0,
                             IF inv.out = "throw" THEN "error" ELSE "ok")>>
                      \o RequestCalls(inv.reqs, <<>>)
              text == IF inv.out = "content" THEN "S" ELSE ""
          IN
          IF inv.out = "throw"
          THEN /\ calls' = calls \o made
               /\ IF reviewCatch("SummaryError") = "rethrow"
                  THEN error' = "SummaryError" /\ pc' = "Raised" /\ returned' = returned
                  ELSE error' = error /\ pc' = "Done" /\ returned' = Resolved(results)
               /\ UNCHANGED <<summary, npc>>
          ELSE /\ summary' = text
               /\ IF shouldNotifySummary(text)
                  THEN /\ calls' = calls \o made
                             \o <<Call("sendSummaryNotification", <<>>, 0, "ok")>>
                       /\ pc' = "Notifying"
                       /\ npc' = SummaryNotificationEntry
                       /\ UNCHANGED <<error, returned>>
                  ELSE /\ calls' = calls \o made
                       /\ pc' = "Done"
                       /\ returned' = Resolved(results)
                       /\ UNCHANGED <<error, npc>>
    /\ UNCHANGED <<config, diffs, filteredDiffs, idx, issueIdx, results>>

\* sendSummaryNotification: await platform.submitReviewSummary(summary).
\* A rejected call is handled by the catch of sendSummaryNotification,
\* which then returns; review() returns results.
SubmitReviewSummary ==
    /\ UNCHANGED ext
    /\ pc = "Notifying"
    /\ npc = "comments"
    /\ \E res \in {"ok", "error"} :
         /\ calls' = Append(calls, Call("submitReviewSummary", <<>>, 0, res))
         /\ IF res = "ok"
            THEN npc' = "wecom" /\ UNCHANGED <<pc, returned, error>>
            ELSE IF notificationCatch("CommentError") = "swallow"
                 THEN npc' = "none" /\ pc' = "Done" /\ returned' = Resolved(results) /\ error' = error
                 ELSE npc' = "none" /\ pc' = "Raised" /\ returned' = returned
                      /\ error' = "CommentError"
    /\ UNCHANGED <<config, diffs, filteredDiffs, idx, issueIdx, results, summary>>

\* sendSummaryNotification: the webhook part; then review() returns results
SendSummaryWecom ==
    /\ UNCHANGED ext
    /\ pc = "Notifying"
    /\ npc = "wecom"
    /\ \E res \in {"ok", "error"} :
         LET w == IF wecomEnabled(config)
                  THEN sendWecomNotification("wecomSummary", <<>>, res)
                  ELSE [made |-> <<>>, err |-> "None"]
         IN
         /\ calls' = calls \o w.made
         /\ npc' = "none"
         /\ IF w.err # "None" /\ notificationCatch(w.err) = "rethrow"
            THEN error' = w.err /\ pc' = "Raised" /\ returned' = returned
            ELSE error' = error /\ pc' = "Done" /\ returned' = Resolved(results)
    /\ UNCHANGED <<config, diffs, filteredDiffs, idx, issueIdx, results, summary>>

Next ==
    \/ Review
    \/ GetCodeDiffsReturn
    \/ GetCodeDiffsFail
    \/ FilterDiffs
    \/ ReviewCode
    \/ SubmitReviewComment
    \/ SendReviewWecom
    \/ LoopExit
    \/ GenerateSummary
    \/ SubmitReviewSummary
    \/ SendSummaryWecom

Spec == Init /\ [][Next]_vars

----------------------------------------------------------------------------
(* Vocabulary of the properties *)

CallIdx == DOMAIN calls

Made(ops) == { k \in CallIdx : calls[k].op \in ops }

Failed(ops) == { k \in Made(ops) : calls[k].res = "error" }

Succeeded(ops) == { k \in Made(ops) : calls[k].res = "ok" }

\* getCodeDiffs was rejected in this run
FetchFailed == Failed({"getCodeDiffs"}) # {}

\* rs is an order-preserving subsequence of ds, matching file with newPath
RECURSIVE IsSubsequence(_, _)
IsSubsequence(rs, ds) ==
    IF rs = <<>> THEN TRUE
    ELSE IF ds = <<>> THEN FALSE
    ELSE IF Head(rs).file = Head(ds).newPath
         THEN IsSubsequence(Tail(rs), Tail(ds))
         ELSE IsSubsequence(rs, Tail(ds))

----------------------------------------------------------------------------
(* C1..C10: failure handling and ordering of a run of review() *)

\* C1: a failure of reviewCode for one filtered file is local to that file:
\* review() does not raise, the failed file has no outcome, and every other
\* filtered file is still reviewed and its outcome returned in order.
C1_ModelFailureIsLocal ==
    \A k \in Failed({"reviewCode"}) :
        /\ error = "None"
        /\ pc # "Raised"
        /\ \A i \in 1..Len(results) : results[i].file # calls[k].file
        /\ pc = "Done" =>
              /\ returned = Resolved(results)
              /\ \A i \in 1..Len(filteredDiffs) :
                    \E j \in Made({"reviewCode"}) : calls[j].file = filteredDiffs[i].newPath

\* C2: when generateSummary fails after at least one outcome was produced,
\* review() does not raise and returns every outcome produced so far.
C2_SummaryFailureKeepsOutcomes ==
    Failed({"generateSummary"}) # {} =>
        /\ error = "None"
        /\ pc = "Done"
        /\ returned = Resolved(results)
        /\ Len(results) > 0

C4_NotificationFailuresSwallowed ==
    /\ error \in {"None", "FetchError", "ModelError", "SummaryError"}
    /\ \A k \in Failed(FileNotifyOps) :
          k = Len(calls) =>
             /\ pc \in {"ReviewingFiles", "Summarizing"}
             /\ npc = "none"
             /\ idx >= 2
             /\ filteredDiffs[idx - 1].newPath = calls[k].file
             /\ results[Len(results)].file = calls[k].file
    /\ \A k \in Failed(SummaryNotifyOps) :
          /\ pc = "Done"
          /\ returned = Resolved(results)

C4_Witness ==
    /\ pc = "Done"
    /\ returned = Resolved(results)
    /\ Len(results) >= 2
    /\ Failed({"submitReviewComment"}) # {}
    /\ Failed({"wecom"}) # {}
    /\ Failed({"submitReviewSummary"}) # {}

\* C5: the channels are independent: when a platform comment call of a
\* notification fails and the webhook channel is enabled and configured,
\* the webhook POST of that same notification is still sent.
C5_ChannelsIndependent ==
    wecomEnabled(config) =>
        /\ \A k \in Failed({"submitReviewComment"}) :
              (k < Len(calls) \/ npc = "none") =>
                 \E j \in Made({"wecom"}) : j > k /\ calls[j].file = calls[k].file
        /\ \A k \in Failed({"submitReviewSummary"}) :
              (k < Len(calls) \/ npc = "none") =>
                 \E j \in Made({"wecomSummary"}) : j > k

\* C6: at every point of a run the result list is an order-preserving
\* subsequence of the filtered files: at most one outcome per file, each
\* outcome's file is the newPath of its file, in original file order; the
\* list review() returns is that list.
C6_ResultsSubsequence ==
    /\ IsSubsequence(results, filteredDiffs)
    /\ \A i, j \in 1..Len(results) : i # j => results[i].file # results[j].file
    /\ Len(results) <= Len(filteredDiffs)
    /\ returned.resolved => returned.value = results

C6_Witness ==
    /\ pc = "Done"
    /\ returned = Resolved(results)
    /\ Len(results) = 3
    /\ Len(filteredDiffs) = 3

\* C7: notifications are interleaved with reviews: every successful review
\* is followed by its file's notification before any other review call;
\* every per-file notification call belongs to the file whose review returned
\* an outcome last; and no review or per-file notification call follows a
\* summary notification call.
C7_NotificationsInterleaved ==
    LET reviews == Made({"reviewCode"})
        reviewed == { j \in reviews : calls[j].res = "ok" }
        between(j, k) == \E m \in reviews : j < m /\ m < k
    IN
    /\ \A j \in reviewed :
          \E k \in Made({"sendReviewNotification"}) :
             /\ k > j
             /\ calls[k].file = calls[j].file
             /\ ~ between(j, k)
    /\ \A k \in Made(FileNotifyOps) :
          \E j \in reviewed :
             /\ j < k
             /\ calls[j].file = calls[k].file
             /\ ~ between(j, k)
             /\ \E i \in 1..Len(results) : results[i].file = calls[k].file
    /\ \A k \in Made(SummaryNotifyOps) :
          \A m \in (k + 1)..Len(calls) :
             calls[m].op \notin (FileNotifyOps \cup {"reviewCode"})

C7_Witness ==
    /\ pc = "Done"
    /\ Len(results) >= 2
    /\ \E k \in Made({"submitReviewComment"}), j \in Made({"reviewCode"}),
          m \in Made({"submitReviewSummary"}) : k < j /\ j < m

SummaryNotifications == Cardinality(Made({"sendSummaryNotification"}))

\* C8 (as stated): in every run with at least one outcome whose summarize
\* call returns without failure, sendSummaryNotification is invoked exactly
\* once, whatever text the summarize call returned.
C8_SummaryNotifiedOnce ==
    (pc = "Done" /\ Succeeded({"generateSummary"}) # {}) => SummaryNotifications = 1

\* C8 (amended): in every run with at least one outcome whose summarize
\* call returns a non-empty text, sendSummaryNotification is invoked exactly
\* once; when it returns an empty text sendSummaryNotification is not
\* invoked; and it is never invoked without a successful summarize call.
C8_SummaryNotifiedOnceIfNonEmpty ==
    IF Succeeded({"generateSummary"}) # {}
    THEN /\ Len(results) > 0
         /\ SummaryNotifications = (IF summary # "" THEN 1 ELSE 0)
    ELSE SummaryNotifications = 0

C8_Witness ==
    /\ pc = "Done"
    /\ config.provider = "ollama"
    /\ summary = "S"
    /\ SummaryNotifications = 1

\* C9: the summarize call and the summary notification occur only when at
\* least one outcome exists: with an empty ChangeSet, or when the filter
\* removes every file, review() returns an empty list without a summarize
\* call and without a summary notification, and with an empty ChangeSet
\* without any model call.
C9_SummaryOnlyWithOutcomes ==
    /\ Made({"generateSummary"} \cup SummaryNotifyOps) # {} => Len(results) > 0
    /\ (pc = "Done" /\ filteredDiffs = <<>>) =>
          /\ returned = Resolved(<<>>)
          /\ Made({"generateSummary"} \cup SummaryNotifyOps) = {}
    /\ (pc = "Done" /\ diffs = <<>>) => Made(ModelOps) = {}

C9_Witness ==
    /\ pc = "Done"
    /\ Len(diffs) > 0
    /\ filteredDiffs = <<>>
    /\ returned = Resolved(<<>>)

C9_WitnessEmptyChangeSet ==
    /\ pc = "Done"
    /\ Succeeded({"getCodeDiffs"}) # {}
    /\ diffs = <<>>

\* C10: when notifications.gitlab_comment is false, a run makes no platform
\* comment call, neither submitReviewComment nor submitReviewSummary.
C10_NoPlatformCommentWhenDisabled ==
    ~ config.gitlab_comment => Made(PlatformCommentOps) = {}

----------------------------------------------------------------------------
(* sendReviewNotification on one outcome, with the requests each Platform  *)
(* variant makes for a comment                                             *)

Platforms == {"gitlab", "github", "local"}

\* GitLabPlatform has submitBatchReviewComments; the others have not
hasBatchApi(p) == p = "gitlab"

\* requests that create a comment anchored to a line of a file
LineCommentRequests == {"POST discussions", "POST reviews/comments"}

\* requests that create a comment on the review unit as a whole
SummaryCommentRequests == {"POST notes", "POST issues/comments"}

\* the requests of a run of requests rs that stops at its first failure
RECURSIVE UpToFailure(_)
UpToFailure(rs) ==
    IF rs = <<>> THEN <<>>
    ELSE IF Head(rs).res = "error" THEN <<Head(rs)>>
    ELSE <<Head(rs)>> \o UpToFailure(Tail(rs))

\* platform.submitReviewComment(filePath, line, comment): the sequences of
\* requests it can make; it rejects iff its last request failed.
\* GitLab posts a discussion with position.new_line = line, whatever line is.
\* GitHub creates a review, then for a truthy line reads the pull request and
\* posts a review comment, and otherwise calls submitReviewSummary.
\* Local writes to the console.
submitReviewComment(p, filePath, line) ==
    CASE p = "gitlab" ->
           { << Call("POST discussions", filePath, line, r) >> : r \in {"ok", "error"} }
      [] p = "github" ->
           { UpToFailure(<< Call("POST reviews", filePath, 0, r[1]) >> \o
                (IF line # 0
                 THEN << Call("GET pulls", filePath, 0, r[2]),
                         Call("POST reviews/comments", filePath, line, r[3]) >>
                 ELSE << Call("POST issues/comments", filePath, 0, r[2]) >>))
             : r \in [1..3 -> {"ok", "error"}] }
      [] OTHER -> { <<>> }

\* the calls rejected: their last request failed
Rejected(reqs) == reqs # <<>> /\ reqs[Len(reqs)].res = "error"

\* the outcomes notified in this specification: one file, up to two issues
NotifyIssueLists ==
    { <<>>,
      << [line |-> 7, severity |-> "error"] >>,
      << [line |-> 0, severity |-> "info"] >>,
      << [line |-> 0, severity |-> "info"], [line |-> 7, severity |-> "error"] >>,
      << [line |-> 7, severity |-> "error"], [line |-> 9, severity |-> "warning"] >> }

NotifyConfigs ==
    { c \in Configs : c.provider = "openai" /\ ~ c.review.ignoreFiles.defined }

InitNotify ==
    /\ config \in NotifyConfigs
    /\ platform \in Platforms
    /\ \E issues \in NotifyIssueLists :
          /\ results = << ReviewResult(src_b, issues) >>
          /\ npc = IF config.gitlab_comment /\ Len(issues) > 0 THEN "comments" ELSE "wecom"
    /\ filteredDiffs = << CodeDiff(src_c, src_b) >>
    /\ diffs = filteredDiffs
    /\ idx = 1
    /\ issueIdx = 1
    /\ pc = "Notify"
    /\ summary = ""
    /\ returned = Pending
    /\ error = "None"
    /\ calls = << Call("sendReviewNotification", src_b, 0, "ok") >>
    /\ inflight = {}
    /\ options = <<>>
    /\ content = <<>>
    /\ parsed = <<>>

\* one iteration of the loop over result.issues: formatIssueComment, then
\* await platform.submitReviewComment(filePath, issue.line, message)
NotifyComment ==
    /\ pc = "Notify"
    /\ npc = "comments"
    /\ commentsEnabled(config)
    /\ LET result == results[1]
           issue == result.issues[issueIdx]
       IN
       /\ issueIdx <= Len(result.issues)
       /\ \E reqs \in submitReviewComment(platform, result.file, issue.line) :
            /\ calls' = calls
                 \o << Call("submitReviewComment", result.file, issue.line,
                            IF Rejected(reqs) THEN "error" ELSE "ok") >>
                 \o reqs
            /\ IF ~ Rejected(reqs)
               THEN /\ IF issueIdx < Len(result.issues)
                       THEN issueIdx' = issueIdx + 1 /\ npc' = npc
                       ELSE issueIdx' = issueIdx /\ npc' = "wecom"
                    /\ UNCHANGED <<pc, error>>
               ELSE IF notificationCatch("CommentError") = "swallow"
                    THEN npc' = "none" /\ pc' = "Notified" /\ UNCHANGED <<issueIdx, error>>
                    ELSE npc' = "none" /\ pc' = "Raised" /\ error' = "CommentError"
                         /\ UNCHANGED issueIdx
    /\ UNCHANGED <<config, diffs, filteredDiffs, idx, results, summary, returned>>
    /\ UNCHANGED ext

\* the webhook part of sendReviewNotification, then it returns
NotifyWecom ==
    /\ pc = "Notify"
    /\ npc = "wecom"
    /\ \E res \in {"ok", "error"} :
         LET w == IF wecomEnabled(config)
                  THEN sendWecomNotification("wecom", results[1].file, res)
                  ELSE [made |-> <<>>, err |-> "None"]
         IN
         /\ calls' = calls \o w.made
         /\ npc' = "none"
         /\ IF w.err # "None" /\ notificationCatch(w.err) = "rethrow"
            THEN error' = w.err /\ pc' = "Raised"
            ELSE error' = error /\ pc' = "Notified"
    /\ UNCHANGED <<config, diffs, filteredDiffs, idx, issueIdx, results, summary, returned>>
    /\ UNCHANGED ext

NextNotify ==
    \/ NotifyComment
    \/ NotifyWecom

SpecNotify == InitNotify /\ [][NextNotify]_vars

\* C11: with platform comments enabled, a notification that completed without
\* a failed call has emitted exactly one line comment per issue that has a
\* line, through the batch API when the platform has one; an issue without a
\* line is never sent as a line comment: it goes to a summary comment.
C11_LineCommentPerFinding ==
    (pc = "Notified" /\ config.gitlab_comment /\ platform # "local"
       /\ Failed(PlatformCommentOps \cup LineCommentRequests
                   \cup SummaryCommentRequests \cup {"POST reviews", "GET pulls"}) = {}) =>
       LET issues == results[1].issues IN
       /\ \A i \in 1..Len(issues) :
            IF issues[i].line # 0
            THEN Cardinality({ k \in Made(LineCommentRequests) :
                                   calls[k].line = issues[i].line }) = 1
            ELSE Made(SummaryCommentRequests) # {}
       /\ \A k \in Made(LineCommentRequests) : calls[k].line # 0
       /\ (hasBatchApi(platform) /\ Len(issues) > 0) =>
             /\ Made({"submitBatchReviewComments"}) # {}
             /\ Made({"submitReviewComment"}) = {}

----------------------------------------------------------------------------
(* getCodeDiffs of the two remote platforms, one action per start and per  *)
(* completion of a fetch; inflight is the set of fetches awaiting a        *)
(* response                                                                *)

RemotePlatforms == {"gitlab", "github"}

Sides == {"old", "new"}

FetchStatus == {"ok", "404", "error"}

\* the first fetch of getFileContent: GitLab reads the merge request for its
\* branch names before the raw file, GitHub fetches contents_url directly
firstFetch(p) == IF p = "gitlab" THEN "info" ELSE "contents"

\* GitLab awaits the old content before asking for the new one
startedTogether_Always(p) == TRUE

\* GitHub passes both getFileContent calls to Promise.all
startedTogether(p) == p = "github"

\* the catch of getFileContent on a remote platform logs a warning and
\* returns the empty string
fileContentCatch_Rethrow(err) == "throw"

fileContentCatch(err) == ""

\* the request as it is logged
FetchOp(r) ==
    CASE r.req = "info" /\ r.side = "old" -> "GET merge_request old"
      [] r.req = "info" /\ r.side = "new" -> "GET merge_request new"
      [] r.req = "raw" /\ r.side = "old" -> "GET raw old"
      [] r.req = "raw" /\ r.side = "new" -> "GET raw new"
      [] r.req = "contents" /\ r.side = "old" -> "GET contents old"
      [] OTHER -> "GET contents new"

ContentOps(side) ==
    IF side = "old"
    THEN {"GET merge_request old", "GET raw old", "GET contents old"}
    ELSE {"GET merge_request new", "GET raw new", "GET contents new"}

\* the CodeDiff under construction for a file of the response
PendingDiff(file) ==
    [path |-> file.newPath, old |-> "pending", new |-> "pending", diff |-> "diff"]

InitFetch ==
    /\ platform \in RemotePlatforms
    /\ pc = "Idle"
    /\ npc = "none"
    /\ \E c \in NotifyConfigs : config = c /\ c.gitlab_comment /\ ~ c.wecom.enabled /\ c.wecom.webhook
    /\ diffs = <<>>
    /\ filteredDiffs = <<>>
    /\ idx = 1
    /\ issueIdx = 1
    /\ results = <<>>
    /\ summary = ""
    /\ returned = Pending
    /\ error = "None"
    /\ calls = <<>>
    /\ inflight = {}
    /\ options = <<>>
    /\ content = <<>>
    /\ parsed = <<>>

\* getCodeDiffs starts the fetch of the list of changed files
FetchChangesStart ==
    /\ pc = "Idle"
    /\ pc' = "FetchingChanges"
    /\ inflight' = {[side |-> "none", req |-> "changes"]}
    /\ UNCHANGED <<run_but_pc, platform, options, content, parsed>>

\* the list arrives: a response that is not ok makes getCodeDiffs throw, an
\* empty list makes it return []
FetchChangesDone ==
    /\ pc = "FetchingChanges"
    /\ inflight = {[side |-> "none", req |-> "changes"]}
    /\ inflight' = {}
    /\ \E res \in {"ok", "error"} :
         /\ calls' = calls \o << Call("GET changes", <<>>, 0, res) >>
         /\ IF res = "error"
            THEN /\ pc' = "Raised"
                 /\ error' = "FetchError"
                 /\ UNCHANGED <<diffs, content, returned>>
            ELSE \E ds \in ChangeSets :
                 /\ diffs' = ds
                 /\ error' = error
                 /\ IF ds = <<>>
                    THEN pc' = "Returned" /\ returned' = Resolved(<<>>) /\ content' = content
                    ELSE pc' = "FetchingContent" /\ returned' = returned
                         /\ content' = << PendingDiff(ds[1]) >>
    /\ UNCHANGED <<config, npc, filteredDiffs, idx, issueIdx, results, summary>>
    /\ UNCHANGED <<platform, options, parsed>>

\* the loop body calls getFileContent: for both sides at once under
\* Promise.all, else for the next side that has no content yet
FetchContentStart ==
    /\ pc = "FetchingContent"
    /\ inflight = {}
    /\ LET d == content[idx] IN
       IF startedTogether(platform)
       THEN /\ d.old = "pending" /\ d.new = "pending"
            /\ inflight' = {[side |-> s, req |-> firstFetch(platform)] : s \in Sides}
       ELSE /\ d.old = "pending" \/ d.new = "pending"
            /\ inflight' = {[side |-> IF d.old = "pending" THEN "old" ELSE "new",
                             req |-> firstFetch(platform)]}
    /\ UNCHANGED <<run, platform, options, content, parsed>>

\* a fetch of getFileContent completes; when both sides of the file have
\* their content the CodeDiff is pushed and the loop moves to the next file
FetchContentDone ==
    /\ pc = "FetchingContent"
    /\ \E r \in inflight, res \in FetchStatus :
         LET file == diffs[idx]
             text == IF res = "ok" THEN "text"
                     ELSE IF res = "404" /\ r.req # "info" THEN ""
                     ELSE fileContentCatch("ContentError")
             next == IF r.req = "info" /\ res = "ok"
                     THEN {[side |-> r.side, req |-> "raw"]} ELSE {}
             d == IF next # {} THEN content[idx]
                  ELSE IF r.side = "old" THEN [content[idx] EXCEPT !.old = text]
                  ELSE [content[idx] EXCEPT !.new = text]
             pushed == [content EXCEPT ![idx] = d]
             complete == d.old # "pending" /\ d.new # "pending"
         IN
         /\ calls' = calls \o << Call(FetchOp(r), file.newPath, 0, res) >>
         /\ IF next = {} /\ text = "throw"
            THEN /\ pc' = "Raised"
                 /\ error' = "FetchError"
                 /\ inflight' = inflight \ {r}
                 /\ UNCHANGED <<content, idx, returned>>
            ELSE /\ inflight' = (inflight \ {r}) \cup next
                 /\ error' = error
                 /\ IF ~ complete
                    THEN content' = pushed /\ UNCHANGED <<pc, idx, returned>>
                    ELSE IF idx < Len(diffs)
                    THEN /\ content' = pushed \o << PendingDiff(diffs[idx + 1]) >>
                         /\ idx' = nextIndex(idx)
                         /\ UNCHANGED <<pc, returned>>
                    ELSE /\ content' = pushed
                         /\ pc' = "Returned"
                         /\ returned' = Resolved(pushed)
                         /\ idx' = idx
    /\ UNCHANGED <<config, npc, diffs, filteredDiffs, issueIdx, results, summary>>
    /\ UNCHANGED <<platform, options, parsed>>

NextFetch ==
    \/ FetchChangesStart
    \/ FetchChangesDone
    \/ FetchContentStart
    \/ FetchContentDone

SpecFetch == InitFetch /\ [][NextFetch]_vars

\* C12 as stated: at any moment at most one fetch is in flight, the per-file
\* content fetches of getCodeDiffs included.
C12_OneCallInFlight == Cardinality(inflight) <= 1

\* C12: at most one fetch is in flight at any moment, except that GitHub's
\* getCodeDiffs has the old and the new content fetch of one file in flight
\* together; files are fetched one at a time and nothing else overlaps.
C12_OneCallInFlightButContentPair ==
    /\ Cardinality(inflight) <= IF platform = "github" THEN 2 ELSE 1
    /\ Cardinality(inflight) = 2 =>
          /\ pc = "FetchingContent"
          /\ inflight = {[side |-> s, req |-> "contents"] : s \in Sides}
    /\ \A i \in 1..Len(content) : i < idx => content[i].old # "pending" /\ content[i].new # "pending"
    /\ Len(content) <= idx

C12_Witness ==
    /\ platform = "github"
    /\ Cardinality(inflight) = 2
    /\ idx = 2

\* C15: a content fetch that fails (404 or any other failure) leaves the
\* empty content for that side; getCodeDiffs fails only when the list of
\* changes fails, and what it returns has one entry per file of the list, in
\* order, each with its diff text.
C15_ContentFailureDegrades ==
    /\ pc = "Raised" => (calls # <<>> /\ calls[Len(calls)].op = "GET changes")
    /\ \A k \in 1..Len(calls), s \in Sides :
          (calls[k].op \in ContentOps(s) /\ calls[k].res # "ok") =>
             \E i \in 1..Len(content) :
                /\ content[i].path = calls[k].file
                /\ (IF s = "old" THEN content[i].old ELSE content[i].new) = ""
    /\ returned.resolved =>
          /\ Len(returned.value) = Len(diffs)
          /\ \A i \in 1..Len(diffs) :
                /\ returned.value[i].path = diffs[i].newPath
                /\ returned.value[i].diff = "diff"
                /\ returned.value[i].old \in {"", "text"}
                /\ returned.value[i].new \in {"", "text"}

C15_Witness ==
    /\ returned.resolved
    /\ Len(returned.value) >= 2
    /\ returned.value[1].new = ""
    /\ returned.value[2].new = "text"
    /\ \E k \in 1..Len(calls) : calls[k].res = "error" /\ calls[k].file = diffs[1].newPath

----------------------------------------------------------------------------
(* Requests to the model backend per invocation of the provider, read off  *)
(* the log of review()                                                     *)

BackendOps == {"chat.completions", "api/generate", "api/chat"}

Invocations == Made({"reviewCode", "generateSummary"})

\* the requests logged for the invocation at position k of the log
RequestsOf(k) ==
    { j \in (k + 1)..Len(calls) : \A i \in (k + 1)..j : calls[i].op \in BackendOps }

\* the largest change set of the runs the requests are read off
MaxInvokeFiles == 2

\* platform.getCodeDiffs() resolves with at most MaxInvokeFiles files
GetCodeDiffsReturnFew == GetCodeDiffsReturn /\ Len(diffs') <= MaxInvokeFiles

\* review() over a change set of at most MaxInvokeFiles files
NextInvoke ==
    \/ Review
    \/ GetCodeDiffsReturnFew
    \/ GetCodeDiffsFail
    \/ FilterDiffs
    \/ ReviewCode
    \/ SubmitReviewComment
    \/ SendReviewWecom
    \/ LoopExit
    \/ GenerateSummary
    \/ SubmitReviewSummary
    \/ SendSummaryWecom

SpecInvoke == Init /\ [][NextInvoke]_vars

\* C13 as stated: one invocation of reviewCode or generateSummary issues at
\* most one request to the model backend, and a failed request makes the
\* invocation fail, whatever the provider.
C13_AtMostOneRequest ==
    \A k \in Invocations :
       /\ Cardinality(RequestsOf(k)) <= 1
       /\ \A j \in RequestsOf(k) : calls[j].res = "error" => calls[k].res = "error"

\* C13: no request is repeated: OpenAI issues exactly one request per
\* invocation; Ollama issues one request to api/generate and, only when that
\* request failed, one more to api/chat; an invocation whose last request
\* failed fails.
C13_NoRequestRepeated ==
    \A k \in Invocations :
       LET rs == RequestsOf(k) IN
       /\ Cardinality(rs) = 1 \/ (config.provider = "ollama" /\ Cardinality(rs) = 2)
       /\ \A i, j \in rs : calls[i].op = calls[j].op => i = j
       /\ Cardinality(rs) = 2 =>
             /\ calls[k + 1].op = "api/generate" /\ calls[k + 1].res = "error"
             /\ calls[k + 2].op = "api/chat"
       /\ calls[k + Cardinality(rs)].res = "error" => calls[k].res = "error"

C13_Witness ==
    \E k \in Invocations :
       /\ Cardinality(RequestsOf(k)) = 2
       /\ calls[k].res = "ok"
       /\ \E j \in Invocations : j > k /\ calls[j].res = "error"

----------------------------------------------------------------------------
(* Construction of a CodeReviewer: options says which parts of the         *)
(* configuration and which identifiers are present                         *)

ConstructOptions ==
    [provider : {"openai", "ollama"}, apiKey : BOOLEAN,
     type : Platforms, token : BOOLEAN,
     projectId : BOOLEAN, mergeRequestId : BOOLEAN,
     owner : BOOLEAN, repo : BOOLEAN, prId : BOOLEAN]

validateConfig(o) ==
    IF o.provider = "openai" /\ ~ o.apiKey THEN FALSE
    ELSE IF o.type # "local" /\ ~ o.token THEN FALSE
    ELSE TRUE

\* constructor of OpenAIProvider
OpenAIProviderNew(o) == IF ~ o.apiKey THEN "throw" ELSE "ok"

\* constructor of OllamaProvider
OllamaProviderNew(o) == "ok"

GitLabPlatformNew_TokenOnly(o) == IF ~ o.token THEN "throw" ELSE "ok"

\* constructor of GitLabPlatform
GitLabPlatformNew(o) ==
    IF ~ o.token THEN "throw"
    ELSE IF ~ o.projectId \/ ~ o.mergeRequestId THEN "throw"
    ELSE "ok"

\* constructor of GitHubPlatform
GitHubPlatformNew(o) ==
    IF ~ o.token THEN "throw"
    ELSE IF ~ o.owner \/ ~ o.repo \/ ~ o.prId THEN "throw"
    ELSE "ok"

\* constructor of LocalPlatform
LocalPlatformNew(o) == "ok"

createPlatform(o) ==
    CASE o.type = "gitlab" -> GitLabPlatformNew(o)
      [] o.type = "github" -> GitHubPlatformNew(o)
      [] o.type = "local" -> LocalPlatformNew(o)
      [] OTHER -> "throw"

InitConstruct ==
    /\ options \in ConstructOptions
    /\ platform = options.type
    /\ pc = "New"
    /\ npc = "none"
    /\ \E c \in NotifyConfigs :
          config = c /\ c.gitlab_comment /\ ~ c.wecom.enabled /\ c.wecom.webhook
    /\ diffs = <<>>
    /\ filteredDiffs = <<>>
    /\ idx = 1
    /\ issueIdx = 1
    /\ results = <<>>
    /\ summary = ""
    /\ returned = Pending
    /\ error = "None"
    /\ calls = <<>>
    /\ inflight = {}
    /\ content = <<>>
    /\ parsed = <<>>

\* the constructor checks the configuration first
ValidateConfig ==
    /\ pc = "New"
    /\ IF validateConfig(options)
       THEN pc' = "Validated" /\ error' = error
       ELSE pc' = "Raised" /\ error' = "ConfigError"
    /\ UNCHANGED <<config, npc, diffs, filteredDiffs, idx, issueIdx, results, summary,
                   returned, calls, ext>>

\* this.aiProvider = createAiProvider(config.ai)
CreateAiProvider ==
    /\ pc = "Validated"
    /\ LET made == IF options.provider = "openai"
                   THEN OpenAIProviderNew(options) ELSE OllamaProviderNew(options)
       IN IF made = "ok"
          THEN pc' = "ProviderCreated" /\ error' = error
          ELSE pc' = "Raised" /\ error' = "ConfigError"
    /\ UNCHANGED <<config, npc, diffs, filteredDiffs, idx, issueIdx, results, summary,
                   returned, calls, ext>>

\* this.platform = createPlatform(config.platform, options), then the
\* notification manager, which checks nothing
CreatePlatform ==
    /\ pc = "ProviderCreated"
    /\ IF createPlatform(options) = "ok"
       THEN pc' = "Constructed" /\ error' = error
       ELSE pc' = "Raised" /\ error' = "ConfigError"
    /\ UNCHANGED <<config, npc, diffs, filteredDiffs, idx, issueIdx, results, summary,
                   returned, calls, ext>>

\* review() on the constructed object makes the first call that leaves the
\* process
ConstructedReview ==
    /\ pc = "Constructed"
    /\ pc' = "FetchingChanges"
    /\ calls' = calls \o << Call("getCodeDiffs", <<>>, 0, "pending") >>
    /\ UNCHANGED <<config, npc, diffs, filteredDiffs, idx, issueIdx, results, summary,
                   returned, error, ext>>

NextConstruct ==
    \/ ValidateConfig
    \/ CreateAiProvider
    \/ CreatePlatform
    \/ ConstructedReview

SpecConstruct == InitConstruct /\ [][NextConstruct]_vars

\* what the claim calls a configuration error
ConfigurationError(o) ==
    \/ o.provider = "openai" /\ ~ o.apiKey
    \/ o.type \in RemotePlatforms /\ ~ o.token
    \/ o.type = "gitlab" /\ ~ (o.projectId /\ o.mergeRequestId)
    \/ o.type = "github" /\ ~ (o.owner /\ o.repo /\ o.prId)

\* C14: with a missing model credential, a remote platform without token or
\* a missing identifier, construction never yields a reviewer and no call
\* leaves the process; construction raises only before any such call.
C14_ConfigErrorsFatalBeforeIO ==
    /\ ConfigurationError(options) =>
          /\ pc \in {"New", "Validated", "ProviderCreated", "Raised"}
          /\ calls = <<>>
    /\ pc = "Raised" => (ConfigurationError(options) /\ calls = <<>>)
    /\ pc \in {"Constructed", "FetchingChanges"} => ~ ConfigurationError(options)

C14_Witness ==
    /\ pc = "Raised"
    /\ options.type = "gitlab"
    /\ options.token
    /\ options.projectId
    /\ ~ options.mergeRequestId
    /\ calls = <<>>

----------------------------------------------------------------------------
(* matchPatterns on one path and one pattern *)

yarn_lock_full == <<"y", "a", "r", "n", ".", "l", "o", "c", "k">>
yarn_lock_bak  == yarn_lock_full \o <<".", "b", "a", "k">>

MatchPaths ==
    { yarn_lock_full, yarn_lock_bak,
      <<"y", "a", "r", "n", "x", "l", "o", "c", "k">>,
      <<".", "l", "o", "c", "k">>,
      <<"l", "o", "c", "k">>,
      <<"x", ".", "c", "+">>, <<"x", ".", "c", "c">>, <<"x", ".", "c">>,
      <<"x", "c">>, <<"a", "/", "x", ".", "c">> }

\* patterns with and without '*'; "*.c++" is one the RegExp constructor rejects
MatchPatterns ==
    { <<"*", ".", "l", "o", "c", "k">>, yarn_lock_full, <<"*">>,
      <<"*", ".", "c", "+">>, <<"x", ".", "c", "+">>, <<"a", "/", "*">>,
      <<"*", ".", "c">>, <<"*", ".", "c", "+", "+">> }

InitMatch ==
    /\ options \in [filePath : MatchPaths, pattern : MatchPatterns]
    /\ platform = "local"
    /\ pc = "Idle"
    /\ npc = "none"
    /\ \E c \in NotifyConfigs :
          config = c /\ c.gitlab_comment /\ ~ c.wecom.enabled /\ c.wecom.webhook
    /\ diffs = <<>>
    /\ filteredDiffs = <<>>
    /\ idx = 1
    /\ issueIdx = 1
    /\ results = <<>>
    /\ summary = ""
    /\ returned = Pending
    /\ error = "None"
    /\ calls = <<>>
    /\ inflight = {}
    /\ content = <<>>
    /\ parsed = <<>>

\* matchPatterns(filePath, [pattern]): the RegExp constructor throws on a
\* source it cannot compile
MatchPatterns_Call ==
    /\ pc = "Idle"
    /\ IF includes(options.pattern, "*") /\ ~ RegExpValid(regexPattern(options.pattern))
       THEN /\ pc' = "Raised"
            /\ error' = "SyntaxError"
            /\ parsed' = parsed
       ELSE /\ pc' = "Matched"
            /\ error' = error
            /\ parsed' = [matched |-> matchPatterns(options.filePath, <<options.pattern>>)]
    /\ UNCHANGED <<config, npc, diffs, filteredDiffs, idx, issueIdx, results, summary,
                   returned, calls, platform, inflight, options, content>>

NextMatch == MatchPatterns_Call

SpecMatch == InitMatch /\ [][NextMatch]_vars

RECURSIVE GlobMatch(_, _)
\* the matching the claim describes: anchored, '*' stands for any sequence
\* of characters, every other character of the pattern stands for itself
GlobMatch(pattern, path) ==
    IF pattern = <<>> THEN path = <<>>
    ELSE IF Head(pattern) = "*"
         THEN GlobMatch(Tail(pattern), path)
              \/ (path # <<>> /\ GlobMatch(pattern, Tail(path)))
         ELSE path # <<>> /\ Head(path) = Head(pattern)
              /\ GlobMatch(Tail(pattern), Tail(path))

\* C18: matchPatterns decides the anchored match in which '*' is any
\* sequence and every other pattern character is literal, for every pattern
\* and path.
C18_AnchoredLiteralMatch ==
    /\ pc # "Raised"
    /\ pc = "Matched" => parsed.matched = GlobMatch(options.pattern, options.filePath)

----------------------------------------------------------------------------
(* filterDiffs on its own, over ChangeSets and review configurations *)

FilterFiles == { AllFiles[i] : i \in 1..4 }

\* the ChangeSets filtered: a platform lists a changed path once
FilterInputs ==
    { s \in UNION { [1..n -> FilterFiles] : n \in 0..MaxFiles } :
        \A i, j \in DOMAIN s : s[i].newPath = s[j].newPath => i = j }

FilterReviewConfigs ==
    [ ignoreFiles : {Undefined, Some(<< <<"*", ".", "l">> >>)},
      ignorePaths : {Undefined, Some(<< <<"d", "/">> >>)},
      includePatterns : {Undefined, Some(<<>>), Some(<< <<"*", ".", "l">>, <<"b">> >>),
                         Some(<< <<"d", "/", "*">> >>)},
      excludePatterns : {Undefined, Some(<< lock_bak >>), Some(<< <<"*">> >>)} ]

InitFilter ==
    /\ \E c \in NotifyConfigs, review \in FilterReviewConfigs :
          /\ c.gitlab_comment /\ ~ c.wecom.enabled /\ c.wecom.webhook
          /\ config = [c EXCEPT !.review = review]
    /\ diffs \in FilterInputs
    /\ platform = "local"
    /\ pc = "Filtering"
    /\ npc = "none"
    /\ filteredDiffs = <<>>
    /\ idx = 1
    /\ issueIdx = 1
    /\ results = <<>>
    /\ summary = ""
    /\ returned = Pending
    /\ error = "None"
    /\ calls = <<>>
    /\ inflight = {}
    /\ options = <<>>
    /\ content = <<>>
    /\ parsed = <<>>

\* const filteredDiffs = this.filterDiffs(diffs)
ApplyFilterDiffs ==
    /\ pc = "Filtering"
    /\ filteredDiffs' = filterDiffs(config.review, diffs)
    /\ pc' = "Filtered"
    /\ UNCHANGED <<config, npc, diffs, idx, issueIdx, results, summary, returned,
                   error, calls, ext>>

NextFilter == ApplyFilterDiffs

SpecFilter == InitFilter /\ [][NextFilter]_vars

RECURSIVE InOrderWithin(_, _)
\* the entries of out occur in ds, each at its own position, in the same order
InOrderWithin(out, ds) ==
    IF out = <<>> THEN TRUE
    ELSE IF ds = <<>> THEN FALSE
    ELSE IF Head(out) = Head(ds)
         THEN InOrderWithin(Tail(out), Tail(ds))
         ELSE InOrderWithin(out, Tail(ds))

\* C16: the output of filterDiffs is a subset of its input, has no entry
\* twice and keeps the order of the input.
C16_SubsetNoDuplicateInOrder ==
    pc = "Filtered" =>
       /\ \A i \in DOMAIN filteredDiffs : \E j \in DOMAIN diffs : filteredDiffs[i] = diffs[j]
       /\ \A i, j \in DOMAIN filteredDiffs : filteredDiffs[i] = filteredDiffs[j] => i = j
       /\ InOrderWithin(filteredDiffs, diffs)

C16_Witness ==
    /\ pc = "Filtered"
    /\ Len(diffs) = 3
    /\ Len(filteredDiffs) = 2
    /\ filteredDiffs[1] = diffs[1]
    /\ filteredDiffs[2] = diffs[3]

IgnoredFile(review, f) == review.ignoreFiles.defined /\ matchPatterns(f, review.ignoreFiles.v)

IgnoredPath(review, f) ==
    review.ignorePaths.defined
    /\ \E k \in DOMAIN review.ignorePaths.v : startsWith(f, review.ignorePaths.v[k])

NotIncluded(review, f) ==
    /\ review.includePatterns.defined
    /\ review.includePatterns.v # <<>>
    /\ ~ matchPatterns(f, review.includePatterns.v)

Excluded(review, f) == review.excludePatterns.defined /\ matchPatterns(f, review.excludePatterns.v)

\* C17: a file of the input is in the output iff its newPath matches no
\* ignore-file pattern, starts with no ignore-path prefix, matches an include
\* pattern when the include list is non-empty, and matches no exclude
\* pattern; a file an ignore rule drops is not in the output even when an
\* include pattern matches it.
C17_DenyBiasedRules ==
    pc = "Filtered" =>
       \A j \in DOMAIN diffs :
          LET f == diffs[j].newPath
              kept == \E i \in DOMAIN filteredDiffs : filteredDiffs[i] = diffs[j]
          IN /\ kept <=> /\ ~ IgnoredFile(config.review, f)
                         /\ ~ IgnoredPath(config.review, f)
                         /\ ~ NotIncluded(config.review, f)
                         /\ ~ Excluded(config.review, f)
             /\ (IgnoredFile(config.review, f) \/ IgnoredPath(config.review, f)) => ~ kept

\* a file that an ignore rule drops although an include pattern matches it
C17_Witness ==
    /\ pc = "Filtered"
    /\ \E j \in DOMAIN diffs :
          /\ IgnoredFile(config.review, diffs[j].newPath)
          /\ config.review.includePatterns.defined
          /\ config.review.includePatterns.v # <<>>
          /\ matchPatterns(diffs[j].newPath, config.review.includePatterns.v)
          /\ ~ Excluded(config.review, diffs[j].newPath)
          /\ \A i \in DOMAIN filteredDiffs : filteredDiffs[i] # diffs[j]
    /\ filteredDiffs # <<>>

----------------------------------------------------------------------------
(* Model responses.  A raw text is a sequence of lexemes: "7" is a run of  *)
(* digits, " " a blank, "\n" a line break, ":" a colon, "[error]" a        *)
(* lower-case severity tag, "fence" three backquotes, and every other    *)
(* lexeme a run of characters that are none of these                       *)

\* longest free text placed before a fenced block
MaxTextLen == 3

DigitTokens == {"7"}

\* \s
Spaces == {" ", "\n"}

\* the alternatives of (error|warning|info) between brackets
SeverityTags == {"[error]", "[warning]", "[info]"}

SeverityOf(tag) ==
    CASE tag = "[error]" -> "error"
      [] tag = "[warning]" -> "warning"
      [] OTHER -> "info"

Issue(line, severity, message, suggestion) ==
    [line |-> line, severity |-> severity, message |-> message, suggestion |-> suggestion]

RECURSIVE runLength(_, _, _)
\* how many lexemes of text from position p on are in class
runLength(text, p, class) ==
    IF p > Len(text) THEN 0
    ELSE IF text[p] \notin class THEN 0
    ELSE 1 + runLength(text, p + 1, class)

RECURSIVE lineEnd(_, _)
\* the last position of the line that position p is on
lineEnd(text, p) ==
    IF p >= Len(text) THEN Len(text)
    ELSE IF text[p + 1] = "\n" THEN p
    ELSE lineEnd(text, p + 1)

RECURSIVE trimStart(_)
trimStart(t) ==
    IF t = <<>> THEN <<>>
    ELSE IF Head(t) \in Spaces THEN trimStart(Tail(t)) ELSE t

RECURSIVE trimEnd(_)
trimEnd(t) ==
    IF t = <<>> THEN <<>>
    ELSE IF t[Len(t)] \in Spaces THEN trimEnd(SubSeq(t, 1, Len(t) - 1)) ELSE t

\* String.prototype.trim
trim(t) == trimEnd(trimStart(t))

RECURSIVE parseInt(_)
\* Number.parseInt(digits, 10) of a run of digit lexemes
parseInt(ds) ==
    IF ds = <<>> THEN 0
    ELSE parseInt(SubSeq(ds, 1, Len(ds) - 1)) * 10 + 7

NoMatch ==
    [found |-> FALSE, line |-> 0, severity |-> "info", message |-> <<>>, lastIndex |-> 0]

\* one attempt of /(\d+)?\s*[:：]\s*(?:\[(error|warning|info)\]\s*)?([^\n]+)/
\* at position p.  The digits and the blanks before the colon are taken
\* whole (a shorter run is not followed by the colon).  After the colon the
\* engine prefers the longest run of blanks, then the tag, then the longest
\* run of blanks after the tag, and gives ground until a character that is
\* not a line break is left for the message, which runs to the end of the
\* line.
problemRegexAt(text, p) ==
    LET d == runLength(text, p, DigitTokens)
        c == p + d + runLength(text, p + d, Spaces)
    IN
    IF c > Len(text) THEN NoMatch
    ELSE IF text[c] # ":" THEN NoMatch
    ELSE
      LET q == c + 1
          w2s == 0..runLength(text, q, Spaces)
          plain == { [w2 |-> w, tag |-> FALSE, s |-> q + w] : w \in w2s }
          tagged == UNION { { [w2 |-> w, tag |-> TRUE, s |-> q + w + 1 + w3] :
                                w3 \in 0..runLength(text, q + w + 1, Spaces) } :
                            w \in { v \in w2s : q + v <= Len(text)
                                                /\ text[q + v] \in SeverityTags } }
          feasible == { m \in plain \cup tagged : m.s <= Len(text) /\ text[m.s] # "\n" }
          prefers(a, b) ==
              \/ a.w2 > b.w2
              \/ a.w2 = b.w2 /\ a.tag /\ ~ b.tag
              \/ a.w2 = b.w2 /\ a.tag = b.tag /\ a.s >= b.s
      IN
      IF feasible = {} THEN NoMatch
      ELSE LET m == CHOOSE x \in feasible : \A y \in feasible : prefers(x, y)
               e == lineEnd(text, m.s)
           IN [found |-> TRUE,
               line |-> IF d > 0 THEN parseInt(SubSeq(text, p, p + d - 1)) ELSE 0,
               severity |-> IF m.tag THEN SeverityOf(text[q + m.w2]) ELSE "info",
               message |-> trim(SubSeq(text, m.s, e)),
               lastIndex |-> e + 1]

RECURSIVE execAll(_, _)
\* the loop of problemRegex.exec(content): the leftmost match from lastIndex
\* on, one issue per match, until there is none
execAll(text, from) ==
    IF from > Len(text) THEN <<>>
    ELSE LET m == problemRegexAt(text, from) IN
         IF m.found
         THEN << Issue(m.line, m.severity, m.message, <<>>) >> \o execAll(text, m.lastIndex)
         ELSE execAll(text, from + 1)

\* the alternatives of (?:总结|总体评价|Summary) under the i flag
SummaryKeywords == {"Summary", "summary"}

Min(S) == CHOOSE x \in S : \A y \in S : x <= y

RECURSIVE lastParagraph(_)
\* the last element of content.split('\n\n')
lastParagraph(text) ==
    LET seps == { i \in 1..(Len(text) - 1) : text[i] = "\n" /\ text[i + 1] = "\n" } IN
    IF seps = {} THEN text
    ELSE lastParagraph(SubSeq(text, Min(seps) + 2, Len(text)))

\* extractSummary: the text after the first "Summary:" whose line is followed
\* by an empty line or by the end of the text, trimmed; the engine prefers
\* the longest run of blanks after the colon and gives ground until the
\* captured line is not empty.  Without such a match, the last paragraph.
extractSummary(text) ==
    LET starts == UNION { { [k |-> k, s |-> k + 2 + w] :
                              w \in 0..runLength(text, k + 2, Spaces) } :
                          k \in { i \in 1..(Len(text) - 1) :
                                    text[i] \in SummaryKeywords /\ text[i + 1] = ":" } }
        closed(e) == e = Len(text)
                     \/ (e + 2 <= Len(text) /\ text[e + 1] = "\n" /\ text[e + 2] = "\n")
        feasible == { m \in starts : /\ m.s <= Len(text)
                                     /\ text[m.s] # "\n"
                                     /\ closed(lineEnd(text, m.s)) }
        prefers(a, b) == a.k < b.k \/ (a.k = b.k /\ a.s >= b.s)
    IN
    IF feasible # {}
    THEN LET m == CHOOSE x \in feasible : \A y \in feasible : prefers(x, y)
         IN trim(SubSeq(text, m.s, lineEnd(text, m.s)))
    ELSE trim(lastParagraph(text))

newIssues_Kept == IF parsed = <<>> THEN <<>> ELSE parsed.issues

\* const issues = []: the array the scan pushes to is made anew in each call
newIssues == <<>>

scanReview_NoFallback(text, filePath) ==
    [file |-> filePath, issues |-> execAll(text, 1), summary |-> extractSummary(text)]

\* the text scan of parseReviewResponse: one issue per match of problemRegex,
\* a single issue carrying the whole text when nothing matched and the text
\* is not blank, and the summary extractSummary finds
scanReview(text, filePath) ==
    LET found == newIssues \o execAll(text, 1)
        issues == IF found = <<>> /\ trim(text) # <<>>
                  THEN << Issue(0, "info", <<"review feedback">>, trim(text)) >>
                  ELSE found
    IN [file |-> filePath, issues |-> issues, summary |-> extractSummary(text)]

\* content.match(/```json\n([\s\S]*?)\n```/) || content.match(/```([\s\S]*?)```/):
\* the leftmost opening, then the nearest closing
jsonMatch(text) ==
    LET closes(i) == { j \in (i + 3)..(Len(text) - 1) : text[j] = "\n" /\ text[j + 1] = "fence" }
        opens == { i \in 1..(Len(text) - 2) :
                     /\ text[i] = "fence" /\ text[i + 1] = "json" /\ text[i + 2] = "\n"
                     /\ closes(i) # {} }
        anyCloses(i) == { j \in (i + 1)..Len(text) : text[j] = "fence" }
        anyOpens == { i \in 1..Len(text) : text[i] = "fence" /\ anyCloses(i) # {} }
    IN
    IF opens # {}
    THEN [found |-> TRUE,
          body |-> SubSeq(text, Min(opens) + 3, Min(closes(Min(opens))) - 1)]
    ELSE IF anyOpens # {}
    THEN [found |-> TRUE,
          body |-> SubSeq(text, Min(anyOpens) + 1, Min(anyCloses(Min(anyOpens))) - 1)]
    ELSE [found |-> FALSE, body |-> <<>>]

\* the JSON texts explored, as lexemes
JsonRecord == <<"{issues", ":", "[I],summary:S}">>
JsonRecordOdd == <<"{issues", ":", "[J],summary:S}">>
JsonIssuesOnly == <<"{issues", ":", "[]}">>
JsonNoIssues == <<"{summary", ":", "S}">>
JsonNull == <<"null">>
JsonArray == <<"[1]">>
JsonBad == <<"{bad">>

\* the array that "[I]" denotes
EmbeddedIssues == << Issue(7, "error", <<"m">>, <<>>) >>

\* the array that "[J]" denotes: its issue has a severity the model made up
OddIssues == << Issue(7, "critical", <<"m">>, <<>>) >>

\* JSON.parse: kind is "SyntaxError" when it throws, else the kind of value
\* parsed; blanks around the value are allowed, a run of digits is a number
JSONParse(body) ==
    LET b == trim(body)
        value(kind, hasIssues, issues, smry) ==
            [kind |-> kind, hasIssues |-> hasIssues, issues |-> issues, summary |-> smry]
    IN CASE b = JsonRecord -> value("record", TRUE, EmbeddedIssues, <<"S">>)
         [] b = JsonRecordOdd -> value("record", TRUE, OddIssues, <<"S">>)
         [] b = JsonIssuesOnly -> value("record", TRUE, <<>>, <<>>)
         [] b = JsonNoIssues -> value("record", FALSE, <<>>, <<"S">>)
         [] b = JsonNull -> value("null", FALSE, <<>>, <<>>)
         [] b = JsonArray -> value("array", FALSE, <<>>, <<>>)
         [] Len(b) = 1 /\ b[1] \in DigitTokens -> value("number", FALSE, <<>>, <<>>)
         [] OTHER -> value("SyntaxError", FALSE, <<>>, <<>>)

Return(v) == [thrown |-> FALSE, value |-> v]

Throw(filePath) == [thrown |-> TRUE, value |-> [file |-> filePath, issues |-> <<>>, summary |-> <<>>]]

\* the result parseReviewResponse builds in its catch
ErrorResult(filePath) ==
    [file |-> filePath,
     issues |-> << Issue(0, "error", <<"parse error">>, <<"String(error)">>) >>,
     summary |-> <<"parse error">>]

\* the catch around JSON.parse warns and lets the text scan run
jsonCatch(err) == "fallthrough"

parseCatch_Rethrow(filePath, err) == Throw(filePath)

\* the catch of parseReviewResponse logs and returns the error result
parseCatch(filePath, err) == Return(ErrorResult(filePath))

\* OpenAIProvider.parseReviewResponse.  Reading a property of null throws a
\* TypeError inside the try around JSON.parse; a method call on a content
\* that is not a string throws in the outer try.
OpenAIParseReviewResponse(raw, filePath) ==
    IF ~ raw.defined THEN parseCatch(filePath, "TypeError")
    ELSE LET text == raw.v
             m == jsonMatch(text)
             parsed_ == JSONParse(m.body)
         IN IF m.found /\ m.body # <<>> /\ parsed_.kind = "record" /\ parsed_.hasIssues
            THEN Return([file |-> filePath, issues |-> parsed_.issues,
                         summary |-> parsed_.summary])
            ELSE IF m.found /\ m.body # <<>> /\ parsed_.kind \in {"SyntaxError", "null"}
                    /\ jsonCatch(parsed_.kind) # "fallthrough"
            THEN parseCatch(filePath, parsed_.kind)
            ELSE Return(scanReview(text, filePath))

\* OllamaProvider.parseReviewResponse: the text scan only.  On a content that
\* is not a string exec finds nothing and content.trim() throws.
OllamaParseReviewResponse(raw, filePath) ==
    IF ~ raw.defined THEN parseCatch(filePath, "TypeError")
    ELSE Return(scanReview(raw.v, filePath))

parseReviewResponse(provider, raw, filePath) ==
    IF provider = "openai" THEN OpenAIParseReviewResponse(raw, filePath)
    ELSE OllamaParseReviewResponse(raw, filePath)

----------------------------------------------------------------------------
(* parseReviewResponse on its own, over raw texts *)

TextAlphabet == {"7", ":", " ", "\n", "[error]", "w"}

FreeTexts == UNION { [1..n -> TextAlphabet] : n \in 0..MaxTextLen }

JsonBodies ==
    { JsonRecord, JsonRecordOdd, JsonIssuesOnly, JsonNoIssues, JsonNull, JsonArray, JsonBad, <<>>,
      <<" ">> \o JsonRecord \o <<"\n">> }

Fenced(b) == <<"fence", "json", "\n">> \o b \o <<"\n", "fence">>

Bare(b) == <<"fence">> \o b \o <<"fence">>

\* no block, one block of either form, a block whose closing fence is on the
\* line of the JSON text, and a block that is not JSON before one that is
Blocks ==
    { <<>> }
    \cup { Fenced(b) : b \in JsonBodies }
    \cup { Bare(b) : b \in JsonBodies }
    \cup { <<"fence", "json", "\n">> \o JsonRecord \o <<"fence">>,
           Fenced(JsonBad) \o <<"\n">> \o Fenced(JsonRecord) }

Trailers == { <<>>, <<"\n", "Summary", ":", " ", "w">> }

RawTexts == { pre \o blk \o post : pre \in FreeTexts, blk \in Blocks, post \in Trailers }

InitParse ==
    /\ options \in [provider : {"openai", "ollama"}, filePath : {src_b}]
    /\ content \in { Some(t) : t \in RawTexts }
                   \cup (IF options.provider = "ollama" THEN {Undefined} ELSE {})
    /\ platform = "local"
    /\ pc = "Idle"
    /\ npc = "none"
    /\ \E c \in NotifyConfigs :
          config = c /\ c.gitlab_comment /\ ~ c.wecom.enabled /\ c.wecom.webhook
    /\ diffs = <<>>
    /\ filteredDiffs = <<>>
    /\ idx = 1
    /\ issueIdx = 1
    /\ results = <<>>
    /\ summary = ""
    /\ returned = Pending
    /\ error = "None"
    /\ calls = <<>>
    /\ inflight = {}
    /\ parsed = <<>>

\* this.parseReviewResponse(content, diff.newPath)
ParseReviewResponse ==
    /\ pc = "Idle"
    /\ LET out == parseReviewResponse(options.provider, content, options.filePath) IN
       IF out.thrown
       THEN pc' = "Raised" /\ error' = "ParseError" /\ parsed' = parsed
       ELSE pc' = "Parsed" /\ error' = error /\ parsed' = out.value
    /\ UNCHANGED <<config, npc, diffs, filteredDiffs, idx, issueIdx, results, summary,
                   returned, calls, platform, inflight, options, content>>

NextParse == ParseReviewResponse

SpecParse == InitParse /\ [][NextParse]_vars

\* C19: parseReviewResponse never raises: for every raw text it returns a
\* ReviewOutcome for the file it was given, with a list of issues and a
\* summary.
C19_ParseIsTotal ==
    /\ pc # "Raised"
    /\ pc = "Parsed" =>
          /\ parsed.file = options.filePath
          /\ DOMAIN parsed.issues = 1..Len(parsed.issues)
          /\ DOMAIN parsed.summary = 1..Len(parsed.summary)
          /\ \A i \in DOMAIN parsed.issues : parsed.issues[i].severity \in STRING

\* a fenced block whose text is not JSON was parsed by the OpenAI variant
C19_Witness ==
    /\ pc = "Parsed"
    /\ options.provider = "openai"
    /\ content.defined
    /\ jsonMatch(content.v).found
    /\ jsonMatch(content.v).body # <<>>
    /\ JSONParse(jsonMatch(content.v).body).kind = "SyntaxError"
    /\ parsed.issues # <<>>

\* the text holds a fenced block that parses as a record with an array of
\* issues
HasRecordBlock(text) ==
    /\ jsonMatch(text).found
    /\ jsonMatch(text).body # <<>>
    /\ JSONParse(jsonMatch(text).body).kind = "record"
    /\ JSONParse(jsonMatch(text).body).hasIssues

\* C20: when the raw text holds a fenced block that parses as a record with
\* an array of issues, the issues of the outcome are that array and the
\* summary is the embedded one, whatever the provider.
C20_FirstMatchWins ==
    (pc = "Parsed" /\ content.defined /\ HasRecordBlock(content.v)) =>
       /\ parsed.issues = JSONParse(jsonMatch(content.v).body).issues
       /\ parsed.summary = JSONParse(jsonMatch(content.v).body).summary

----------------------------------------------------------------------------
(* The text scan of parseReviewResponse on its own, over texts without a  *)
(* fenced block.  "[ERROR]" is the upper-case spelling of a severity tag   *)
(* and "[fatal]" a bracketed token that is no severity.                    *)

\* longest text scanned
MaxScanLen == 3

ScanAlphabet == {"7", ":", " ", "\n", "[error]", "[ERROR]", "[fatal]", "w"}

ScanTexts == UNION { [1..n -> ScanAlphabet] : n \in 0..MaxScanLen }

\* a provider holding a text to interpret for a file, nothing else going on
ParseIdle ==
    /\ options \in [provider : {"openai", "ollama"}, filePath : {src_b}]
    /\ platform = "local"
    /\ pc = "Idle"
    /\ npc = "none"
    /\ \E c \in NotifyConfigs :
          config = c /\ c.gitlab_comment /\ ~ c.wecom.enabled /\ c.wecom.webhook
    /\ diffs = <<>>
    /\ filteredDiffs = <<>>
    /\ idx = 1
    /\ issueIdx = 1
    /\ results = <<>>
    /\ summary = ""
    /\ returned = Pending
    /\ error = "None"
    /\ calls = <<>>
    /\ inflight = {}
    /\ parsed = <<>>

InitScan ==
    /\ content \in { Some(t) : t \in ScanTexts }
    /\ ParseIdle

NextScan == ParseReviewResponse

SpecScan == InitScan /\ [][NextScan]_vars

\* the spellings of the tag of severity error
ErrorTags == {"[error]", "[ERROR]"}

Range(f) == { f[i] : i \in DOMAIN f }

\* the text starts with digits and blanks, then the first colon, at c
FirstColon(text, c) ==
    /\ c \in 1..Len(text)
    /\ text[c] = ":"
    /\ \A i \in 1..(c - 1) : text[i] \in DigitTokens \cup Spaces

\* C21: in the line scan the tag after the colon is recognised in either
\* case: a line "<colon> [ERROR] w" or "<colon> [error] w" yields an issue of
\* severity error whose message does not hold the tag, and a line whose colon
\* is followed by another token yields an issue of severity info.
C21_TagCaseInsensitive ==
    (pc = "Parsed" /\ content.defined) =>
       \A c \in 1..Len(content.v) :
          LET text == content.v
              t == c + 1 + runLength(text, c + 1, Spaces)
          IN
          (FirstColon(text, c) /\ t <= Len(text) /\ text[t] \notin {"\n", ":"}) =>
             /\ parsed.issues # <<>>
             /\ (text[t] \in ErrorTags /\ t < Len(text) /\ text[t + 1] = "w") =>
                   /\ parsed.issues[1].severity = "error"
                   /\ text[t] \notin Range(parsed.issues[1].message)
             /\ text[t] \notin ErrorTags => parsed.issues[1].severity = "info"

----------------------------------------------------------------------------
(* The issue emitted when nothing was found in a text *)

\* the issues that the fenced-block step returns for the text
BlockIssues(text) ==
    IF HasRecordBlock(text) THEN JSONParse(jsonMatch(text).body).issues ELSE <<>>

\* neither step finds an issue in the text
NothingFound(text) == BlockIssues(text) = <<>> /\ execAll(text, 1) = <<>>

\* C22 as stated: when neither the fenced-block step nor the line scan finds
\* an issue, a text that is not blank yields exactly one issue of severity
\* info with the fixed message and the full text as suggestion, and a blank
\* text yields no issue.
C22_FallbackCarriesFullText ==
    (pc = "Parsed" /\ content.defined /\ NothingFound(content.v)) =>
       IF trim(content.v) # <<>>
       THEN parsed.issues = << Issue(0, "info", <<"review feedback">>, content.v) >>
       ELSE parsed.issues = <<>>

\* C22: when neither the fenced-block step nor the line scan finds an issue,
\* a text that is not blank yields exactly one issue of severity info with
\* the fixed message and, as suggestion, the text without the blanks and line
\* breaks at its two ends; a blank text yields no issue.
C22_FallbackCarriesTrimmedText ==
    (pc = "Parsed" /\ content.defined /\ NothingFound(content.v)) =>
       IF trim(content.v) # <<>>
       THEN parsed.issues = << Issue(0, "info", <<"review feedback">>, trim(content.v)) >>
       ELSE parsed.issues = <<>>

\* a text with a blank in front and a fenced block that is not JSON got the
\* single issue
C22_Witness ==
    /\ pc = "Parsed"
    /\ options.provider = "openai"
    /\ content.defined
    /\ NothingFound(content.v)
    /\ jsonMatch(content.v).found
    /\ Head(content.v) = " "
    /\ Len(parsed.issues) = 1
    /\ parsed.issues[1].suggestion = trim(content.v)
    /\ parsed.issues[1].suggestion # content.v

----------------------------------------------------------------------------
(* The severities of the issues of an outcome *)

Severities == {"info", "warning", "error"}

\* C23: every issue of every outcome that parseReviewResponse returns has a
\* severity among info, warning and error, also when the issues come from a
\* fenced block.
C23_SeverityClosed ==
    pc = "Parsed" => \A i \in DOMAIN parsed.issues : parsed.issues[i].severity \in Severities

----------------------------------------------------------------------------
(* extractSummary on its own, over texts of words, blanks, line breaks,    *)
(* colons and the summary keyword                                          *)

\* longest text summarised
MaxSummaryLen == 5

SummaryAlphabet == {"Summary", ":", " ", "\n", "w"}

SummaryTexts == UNION { [1..n -> SummaryAlphabet] : n \in 0..MaxSummaryLen }

InitSummary ==
    /\ content \in { Some(t) : t \in SummaryTexts }
    /\ ParseIdle

NextSummary == ParseReviewResponse

SpecSummary == InitSummary /\ [][NextSummary]_vars

\* where a summary keyword is followed by a colon and, after blanks, by a line
MarkersOf(text) ==
    { k \in 1..(Len(text) - 1) :
        /\ text[k] \in SummaryKeywords
        /\ text[k + 1] = ":"
        /\ k + 2 + runLength(text, k + 2, Spaces) <= Len(text) }

\* the line that follows the marker at k
MarkedLine(text, k) ==
    LET s == k + 2 + runLength(text, k + 2, Spaces) IN trim(SubSeq(text, s, lineEnd(text, s)))

RECURSIVE lastNonBlankParagraph(_)
\* the last of the parts between empty lines that is not blank, or the empty
\* text when there is none
lastNonBlankParagraph(text) ==
    LET seps == { i \in 1..(Len(text) - 1) : text[i] = "\n" /\ text[i + 1] = "\n" } IN
    IF seps = {} THEN trim(text)
    ELSE LET rest == lastNonBlankParagraph(SubSeq(text, Min(seps) + 2, Len(text))) IN
         IF rest # <<>> THEN rest ELSE trim(SubSeq(text, 1, Min(seps) - 1))

\* C24: the summary of an outcome of the text scan is the line that follows
\* the first summary marker of the text when there is one, and otherwise the
\* last paragraph that is not blank, so that it is empty only when the text
\* has no such paragraph.
C24_SummaryMarkerOrLastParagraph ==
    (pc = "Parsed" /\ content.defined) =>
       LET text == content.v IN
       IF MarkersOf(text) # {}
       THEN parsed.summary = MarkedLine(text, Min(MarkersOf(text)))
       ELSE /\ parsed.summary = lastNonBlankParagraph(text)
            /\ trim(text) # <<>> => parsed.summary # <<>>

----------------------------------------------------------------------------
(* parseReviewResponse called several times on one provider: calls is the *)
(* log of the texts and file paths handed over, results the outcomes       *)
(* returned, in order                                                      *)

\* how many calls are made on one provider
MaxCalls == 3

RepeatTexts ==
    { <<>>,
      <<"w">>,
      <<"7", ":", "[error]", "w">>,
      <<":", "w", "\n", "\n", "Summary", ":", "w">>,
      Fenced(JsonRecord),
      Bare(JsonBad) }

InitRepeat ==
    /\ content = Undefined
    /\ ParseIdle

\* one more call of this.parseReviewResponse(content, diff.newPath)
ParseReviewResponseAgain ==
    /\ pc # "Raised"
    /\ Len(calls) < MaxCalls
    /\ \E t \in RepeatTexts, f \in {src_b, src_c} :
          LET out == parseReviewResponse(options.provider, Some(t), f) IN
          /\ content' = Some(t)
          /\ calls' = Append(calls, [text |-> t, file |-> f])
          /\ results' = Append(results, out.value)
          /\ parsed' = out.value
          /\ pc' = IF out.thrown THEN "Raised" ELSE "Parsed"
    /\ UNCHANGED <<config, npc, diffs, filteredDiffs, idx, issueIdx, summary,
                   returned, error, platform, inflight, options>>

NextRepeat == ParseReviewResponseAgain

SpecRepeat == InitRepeat /\ [][NextRepeat]_vars

----------------------------------------------------------------------------
(* The webhook message.  A content is a sequence of characters; calls logs *)
(* the POSTs to the webhook with the markdown content posted                *)

\* const maxLength = 4000
maxLength == 4000

\* how far the lengths explored lie around maxLength
MaxExcess == 2

\* "...(内容过长已截断)"
TruncationMarker == <<".", ".", ".", "(truncated)">>

truncatedContent_AtLimit(c) ==
    IF Len(c) >= maxLength THEN SubSeq(c, 1, maxLength) \o TruncationMarker ELSE c

\* content.length > maxLength ? content.substring(0, maxLength) + marker : content
truncatedContent(c) ==
    IF Len(c) > maxLength THEN SubSeq(c, 1, maxLength) \o TruncationMarker ELSE c

\* "### " + title + "\n\n", the heading put before the content
Heading(title) == <<"#", "#", "#", " ", title, "\n", "\n">>

\* the markdown content of the message
markdownContent(title, c) == Heading(title) \o truncatedContent(c)

WecomLengths == {0, 1} \cup ((maxLength - MaxExcess)..(maxLength + MaxExcess))

\* contents of these lengths: one letter throughout, or with the characters
\* at maxLength and at the end marked
WecomContents ==
    { [i \in 1..n |-> "a"] : n \in WecomLengths }
    \cup { [i \in 1..n |-> IF i = n THEN "z" ELSE IF i = maxLength THEN "m" ELSE "a"] :
             n \in WecomLengths }

WecomTitles == {"file result", "summary"}

InitWecom ==
    /\ config \in NotifyConfigs
    /\ config.gitlab_comment = FALSE
    /\ content \in { Some(c) : c \in WecomContents }
    /\ options \in [title : WecomTitles]
    /\ platform = "local"
    /\ pc = "Notify"
    /\ npc = "wecom"
    /\ diffs = <<>>
    /\ filteredDiffs = <<>>
    /\ idx = 1
    /\ issueIdx = 1
    /\ results = <<>>
    /\ summary = ""
    /\ returned = Pending
    /\ error = "None"
    /\ calls = <<>>
    /\ inflight = {}
    /\ parsed = <<>>

\* the webhook part of a notification: the caller's guard, then
\* sendWecomNotification(title, content) with its own guard, the POST and its
\* catch
SendWecomNotification ==
    /\ pc = "Notify"
    /\ npc = "wecom"
    /\ \E res \in {"ok", "not ok", "rejected"} :
          /\ calls' = IF wecomEnabled(config) /\ config.wecom.webhook
                      THEN Append(calls, [op |-> "POST webhook",
                                          body |-> markdownContent(options.title, content.v),
                                          res |-> res])
                      ELSE calls
          /\ IF wecomEnabled(config) /\ config.wecom.webhook /\ res # "ok"
                /\ wecomCatch("WebhookError") = "rethrow"
                /\ notificationCatch("WebhookError") = "rethrow"
             THEN pc' = "Raised" /\ error' = "WebhookError"
             ELSE pc' = "Notified" /\ error' = error
    /\ npc' = "none"
    /\ UNCHANGED <<config, diffs, filteredDiffs, idx, issueIdx, results, summary,
                   returned, platform, inflight, options, content, parsed>>

NextWecom == SendWecomNotification

SpecWecom == InitWecom /\ [][NextWecom]_vars

\* the part of a posted body after the heading
PostedContent(body) == SubSeq(body, Len(Heading(options.title)) + 1, Len(body))

\* C26: a POST to the webhook is made only with the channel enabled and a
\* webhook configured, and then exactly one; the content posted after the
\* heading is the content itself when it has at most 4000 characters, and
\* otherwise its first 4000 characters followed by the truncation marker.
C26_WebhookContentBounded ==
    /\ calls # <<>> => config.wecom.enabled /\ config.wecom.webhook
    /\ (pc = "Notified" /\ config.wecom.enabled /\ config.wecom.webhook) => Len(calls) = 1
    /\ \A k \in DOMAIN calls :
          LET p == PostedContent(calls[k].body)
              c == content.v
          IN
          /\ SubSeq(calls[k].body, 1, Len(Heading(options.title))) = Heading(options.title)
          /\ Len(c) <= 4000 => p = c
          /\ Len(c) > 4000 =>
                /\ Len(p) = 4000 + Len(TruncationMarker)
                /\ \A i \in 1..4000 : p[i] = c[i]
                /\ SubSeq(p, 4001, Len(p)) = TruncationMarker

\* a content of 4001 characters was posted cut
C26_Witness ==
    /\ pc = "Notified"
    /\ Len(calls) = 1
    /\ Len(content.v) = 4001
    /\ content.v[4001] = "z"
    /\ "z" \notin Range(PostedContent(calls[1].body))

\* a content of exactly 4000 characters was posted whole
C26_WitnessAtLimit ==
    /\ pc = "Notified"
    /\ Len(calls) = 1
    /\ Len(content.v) = 4000
    /\ PostedContent(calls[1].body) = content.v

----------------------------------------------------------------------------
(* The review prompt.  A text is a sequence of lexemes: a placeholder, one *)
(* of the replacement patterns "$$", "$&", "$'" of String.prototype.replace, *)
(* or a run of other characters                                            *)

\* longest template explored
MaxTemplateLen == 3

Placeholders == {"{{language}}", "{{filePath}}", "{{diffContent}}"}

RECURSIVE expandReplacement(_, _, _, _)
\* the text a replacement string stands for when the match of pat at
\* position i of s is replaced: "$$" is a dollar sign, "$&" the matched
\* text, "$'" the text after the match
expandReplacement(repl, s, i, pat) ==
    IF repl = <<>> THEN <<>>
    ELSE (CASE Head(repl) = "$$" -> <<"$">>
            [] Head(repl) = "$&" -> <<pat>>
            [] Head(repl) = "$'" -> SubSeq(s, i + 1, Len(s))
            [] OTHER -> <<Head(repl)>>)
         \o expandReplacement(Tail(repl), s, i, pat)

\* s.replace(pat, repl) with a string pattern: the first occurrence of pat is
\* replaced by the expansion of repl, the rest of s is kept
jsReplace(s, pat, repl) ==
    LET hits == { k \in 1..Len(s) : s[k] = pat } IN
    IF hits = {} THEN s
    ELSE LET i == Min(hits) IN
         SubSeq(s, 1, i - 1) \o expandReplacement(repl, s, i, pat) \o SubSeq(s, i + 1, Len(s))

\* the built-in prompt: a template literal with the three values interpolated
DefaultPrompt(language, filePath, diffContent) ==
    <<"review this ">> \o language \o <<" diff; path: ">> \o filePath
        \o <<"; diff: ">> \o diffContent \o <<"; aspects">>

\* buildReviewPrompt(diff, language); an empty template is falsy
buildReviewPrompt(template, language, filePath, diffContent) ==
    IF template.defined /\ template.v # <<>>
    THEN jsReplace(jsReplace(jsReplace(template.v, "{{language}}", language),
                             "{{filePath}}", filePath),
                   "{{diffContent}}", diffContent)
    ELSE DefaultPrompt(language, filePath, diffContent)

PromptTemplates ==
    {Undefined} \cup
    { Some(t) : t \in UNION { [1..n -> Placeholders \cup {"t"}] : n \in 0..MaxTemplateLen } }

\* detectLanguage yields a fixed name
PromptLanguages == { <<"TypeScript">> }

PromptPaths == { src_b, <<"$&">>, <<"{{diffContent}}">> }

PromptDiffs == { <<"d">>, <<"$$">>, <<"d", "$'">>, <<"{{language}}">> }

InitPrompt ==
    /\ options \in [template : PromptTemplates, language : PromptLanguages,
                    filePath : PromptPaths, diffContent : PromptDiffs]
    /\ content = Undefined
    /\ platform = "local"
    /\ pc = "Idle"
    /\ npc = "none"
    /\ \E c \in NotifyConfigs :
          config = c /\ c.gitlab_comment /\ ~ c.wecom.enabled /\ c.wecom.webhook
    /\ diffs = <<>>
    /\ filteredDiffs = <<>>
    /\ idx = 1
    /\ issueIdx = 1
    /\ results = <<>>
    /\ summary = ""
    /\ returned = Pending
    /\ error = "None"
    /\ calls = <<>>
    /\ inflight = {}
    /\ parsed = <<>>

\* const prompt = this.buildReviewPrompt(diff, language)
BuildReviewPrompt ==
    /\ pc = "Idle"
    /\ content' = Some(buildReviewPrompt(options.template, options.language,
                                         options.filePath, options.diffContent))
    /\ pc' = "Built"
    /\ UNCHANGED <<config, npc, diffs, filteredDiffs, idx, issueIdx, results, summary,
                   returned, error, calls, platform, inflight, options, parsed>>

NextPrompt == BuildReviewPrompt

SpecPrompt == InitPrompt /\ [][NextPrompt]_vars

RECURSIVE Substituted(_, _)
\* the template with every placeholder replaced by its value, as it is
Substituted(t, o) ==
    IF t = <<>> THEN <<>>
    ELSE (CASE Head(t) = "{{language}}" -> o.language
            [] Head(t) = "{{filePath}}" -> o.filePath
            [] Head(t) = "{{diffContent}}" -> o.diffContent
            [] OTHER -> <<Head(t)>>)
         \o Substituted(Tail(t), o)

\* C27: with a template configured the prompt is the template with each
\* placeholder replaced by its value, inserted as it is and not scanned
\* again; with none, the built-in prompt with the three values.
C27_PlaceholdersVerbatim ==
    pc = "Built" =>
       IF options.template.defined /\ options.template.v # <<>>
       THEN content.v = Substituted(options.template.v, options)
       ELSE content.v = DefaultPrompt(options.language, options.filePath, options.diffContent)

----------------------------------------------------------------------------
(* loadConfig: the configuration file, the environment and the arguments   *)
(* of the command line merged over the defaults.  A key of an object is    *)
(* Undefined when the object does not hold it, a section is Undefined when *)
(* the source does not hold it                                             *)

DefaultModel == "deepseek-r1:1.5b"

\* defaultConfig, the sections and keys looked at here
defaultConfig ==
    [ai |-> [model |-> Some(DefaultModel), baseUrl |-> Undefined],
     platform |-> [type |-> Some("local")],
     notifications |-> [gitlab_comment |-> Some(TRUE),
                        wecom |-> [enabled |-> Some(FALSE), webhook |-> Undefined]]]

\* { ...a, ...b }: the keys that b holds replace those of a
Spread(a, b) == [k \in DOMAIN a |-> IF b[k].defined THEN b[k] ELSE a[k]]

\* the environment: each variable is unset or holds a text
Environments ==
    [AI_REVIEWER_MODEL : {Undefined, Some("llama")},
     AI_REVIEWER_BASE_URL : {Undefined, Some("http://env")},
     AI_REVIEWER_GITLAB_COMMENT : {Undefined, Some("true"), Some("no")},
     AI_REVIEWER_WECOM_ENABLED : {Undefined, Some("true"), Some("false")},
     AI_REVIEWER_WECOM_WEBHOOK : {Undefined, Some("http://env/hook")}]

\* loadEnvConfig: the object built from process.env; JSON.parse(JSON.stringify())
\* drops the keys whose value is undefined and keeps every section
loadEnvConfig(env) ==
    [ai |-> Some([model |-> IF env.AI_REVIEWER_MODEL.defined
                            THEN env.AI_REVIEWER_MODEL ELSE Some(DefaultModel),
                  baseUrl |-> env.AI_REVIEWER_BASE_URL]),
     platform |-> Some([type |-> Undefined]),
     notifications |->
        Some([gitlab_comment |-> IF env.AI_REVIEWER_GITLAB_COMMENT.defined
                                 THEN Some(env.AI_REVIEWER_GITLAB_COMMENT.v = "true")
                                 ELSE Undefined,
              wecom |-> Some([enabled |-> Some(/\ env.AI_REVIEWER_WECOM_ENABLED.defined
                                               /\ env.AI_REVIEWER_WECOM_ENABLED.v = "true"),
                              webhook |-> env.AI_REVIEWER_WECOM_WEBHOOK])])]

NoSource == [ai |-> Undefined, platform |-> Undefined, notifications |-> Undefined]

\* what a configuration file may hold
FileConfigs ==
    [ai : {Undefined} \cup { Some(a) : a \in [model : {Undefined, Some("gpt")},
                                            baseUrl : {Undefined, Some("http://file")}] },
     platform : {Undefined},
     notifications :
        {Undefined} \cup
        { Some(n) : n \in [gitlab_comment : {Undefined, Some(FALSE)},
                           wecom : {Undefined} \cup
                                   { Some(w) : w \in [enabled : {Some(TRUE), Some(FALSE)},
                                                      webhook : {Undefined,
                                                                 Some("http://file/hook")}] }] }]

\* what the commands hand over: the platform type, or nothing
CliConfigs ==
    { NoSource, [NoSource EXCEPT !.platform = Some([type |-> Some("gitlab")])] }

\* one source applied to merged, as mergeConfig applies each of them
applySource(merged, src) ==
    [ai |-> IF src.ai.defined THEN Spread(merged.ai, src.ai.v) ELSE merged.ai,
     platform |-> IF src.platform.defined
                  THEN Spread(merged.platform, src.platform.v) ELSE merged.platform,
     notifications |->
        IF ~ src.notifications.defined THEN merged.notifications
        ELSE [gitlab_comment |-> IF src.notifications.v.gitlab_comment.defined
                                 THEN src.notifications.v.gitlab_comment
                                 ELSE merged.notifications.gitlab_comment,
              wecom |-> IF src.notifications.v.wecom.defined
                        THEN Spread(merged.notifications.wecom, src.notifications.v.wecom.v)
                        ELSE merged.notifications.wecom]]

\* mergeConfig(defaultConfig, fileConfig, envConfig, cliConfig)
mergeConfig(dflt, fileConfig, envConfig, cliConfig) ==
    applySource(applySource(applySource(dflt, fileConfig), envConfig), cliConfig)

InitConfig ==
    /\ options \in [file : FileConfigs, env : Environments, cli : CliConfigs]
    /\ content = Undefined
    /\ platform = "local"
    /\ pc = "Idle"
    /\ npc = "none"
    /\ \E c \in NotifyConfigs :
          config = c /\ c.gitlab_comment /\ ~ c.wecom.enabled /\ c.wecom.webhook
    /\ diffs = <<>>
    /\ filteredDiffs = <<>>
    /\ idx = 1
    /\ issueIdx = 1
    /\ results = <<>>
    /\ summary = ""
    /\ returned = Pending
    /\ error = "None"
    /\ calls = <<>>
    /\ inflight = {}
    /\ parsed = <<>>

\* loadConfig(configPath, cliConfig)
LoadConfig ==
    /\ pc = "Idle"
    /\ parsed' = mergeConfig(defaultConfig, options.file, loadEnvConfig(options.env),
                             options.cli)
    /\ pc' = "Loaded"
    /\ UNCHANGED <<config, npc, diffs, filteredDiffs, idx, issueIdx, results, summary,
                   returned, error, calls, platform, inflight, options, content>>

NextConfig == LoadConfig

SpecConfig == InitConfig /\ [][NextConfig]_vars

\* C28: a key that the configuration file sets, and that no variable of the
\* environment and no argument of the command line sets, has the file's
\* value in the merged configuration: the model, the base URL, the comment
\* switch, the webhook switch and the webhook.
C28_FileValueKept ==
    pc = "Loaded" =>
       LET f == options.file
           e == options.env
       IN
       /\ (f.ai.defined /\ f.ai.v.model.defined /\ ~ e.AI_REVIEWER_MODEL.defined) =>
             parsed.ai.model = f.ai.v.model
       /\ (f.ai.defined /\ f.ai.v.baseUrl.defined /\ ~ e.AI_REVIEWER_BASE_URL.defined) =>
             parsed.ai.baseUrl = f.ai.v.baseUrl
       /\ (f.notifications.defined /\ f.notifications.v.gitlab_comment.defined
             /\ ~ e.AI_REVIEWER_GITLAB_COMMENT.defined) =>
             parsed.notifications.gitlab_comment = f.notifications.v.gitlab_comment
       /\ (f.notifications.defined /\ f.notifications.v.wecom.defined
             /\ ~ e.AI_REVIEWER_WECOM_ENABLED.defined) =>
             parsed.notifications.wecom.enabled = f.notifications.v.wecom.v.enabled
       /\ (f.notifications.defined /\ f.notifications.v.wecom.defined
             /\ f.notifications.v.wecom.v.webhook.defined
             /\ ~ e.AI_REVIEWER_WECOM_WEBHOOK.defined) =>
             parsed.notifications.wecom.webhook = f.notifications.v.wecom.v.webhook

----------------------------------------------------------------------------
(* Termination of review(), every awaited call returning in the end *)

SpecTerminate == Init /\ [][NextInvoke]_vars /\ WF_vars(NextInvoke)

\* the promise of review() is settled
Settled == pc \in {"Done", "Raised"}

\* the order of the stages of a run
StageRank(p) ==
    CASE p = "Idle" -> 0
      [] p = "FetchingChanges" -> 1
      [] p = "Filtering" -> 2
      [] p = "ReviewingFiles" -> 3
      [] p = "Summarizing" -> 4
      [] p = "Notifying" -> 5
      [] OTHER -> 6

\* C29: every run of review() settles; on the way the stage never goes back
\* in the order Idle, FetchingChanges, Filtering, ReviewingFiles,
\* Summarizing, Notifying, Done, the file index never decreases, and no file
\* gets a second reviewCode call.
C29_ReviewTerminates ==
    /\ <>Settled
    /\ [][StageRank(pc') >= StageRank(pc) /\ idx' >= idx]_vars
    /\ [](\A i, j \in Made({"reviewCode"}) : calls[i].file = calls[j].file => i = j)

\* a run over two files went through every stage and resolved
C29_Witness ==
    /\ pc = "Done"
    /\ returned.resolved
    /\ Len(filteredDiffs) = 2
    /\ idx = 3
    /\ Cardinality(Made({"reviewCode"})) = 2
    /\ Made({"sendSummaryNotification"}) # {}

----------------------------------------------------------------------------
(* sendBatchReviewNotifications(results, platform): results is the array   *)
(* the caller handed over, read and written through the same reference     *)

\* most outcomes handed over in one call
MaxBatch == 2

BatchFiles == << src_b, src_c, src_e >>

BatchIssueLists ==
    { <<>>,
      << [line |-> 7, severity |-> "error"] >>,
      << [line |-> 0, severity |-> "info"], [line |-> 7, severity |-> "warning"] >> }

\* the outcome lists handed over: one outcome per file, in file order
BatchResults ==
    UNION { { [i \in 1..n |-> ReviewResult(BatchFiles[i], l[i])] :
                l \in [1..n -> BatchIssueLists] } : n \in 0..MaxBatch }

RECURSIVE insertByIssues(_, _)
\* r put after the outcomes that have at least as many issues
insertByIssues(sorted, r) ==
    IF sorted = <<>> THEN <<r>>
    ELSE IF Len(Head(sorted).issues) >= Len(r.issues)
         THEN <<Head(sorted)>> \o insertByIssues(Tail(sorted), r)
         ELSE <<r>> \o sorted

RECURSIVE sortByIssues(_)
\* results.sort((a, b) => b.issues.length - a.issues.length): the array
\* itself ordered by falling number of issues, equal ones keeping their order
sortByIssues(rs) ==
    IF rs = <<>> THEN <<>>
    ELSE insertByIssues(sortByIssues(SubSeq(rs, 1, Len(rs) - 1)), rs[Len(rs)])

RECURSIVE commentCalls(_)
\* one submitReviewComment per issue of each outcome, in order
commentCalls(rs) ==
    IF rs = <<>> THEN <<>>
    ELSE [i \in 1..Len(Head(rs).issues) |->
             Call("submitReviewComment", Head(rs).file, Head(rs).issues[i].line, "ok")]
         \o commentCalls(Tail(rs))

\* the comment calls of the batch when the k-th of them is rejected (k = 0:
\* none is); a platform with submitBatchReviewComments gets one call
batchComments(p, rs, k) ==
    IF hasBatchApi(p)
    THEN << Call("submitBatchReviewComments", <<>>, 0, IF k = 0 THEN "ok" ELSE "error") >>
    ELSE LET cs == commentCalls(rs) IN
         IF k = 0 THEN cs
         ELSE SubSeq(cs, 1, k - 1) \o << [cs[k] EXCEPT !.res = "error"] >>

InitBatch ==
    /\ config \in NotifyConfigs
    /\ platform \in Platforms
    /\ results \in BatchResults
    /\ pc = "Notify"
    /\ npc = "batch"
    /\ diffs = <<>>
    /\ filteredDiffs = <<>>
    /\ idx = 1
    /\ issueIdx = 1
    /\ summary = ""
    /\ returned = Pending
    /\ error = "None"
    /\ calls = <<>>
    /\ inflight = {}
    /\ options = <<>>
    /\ content = <<>>
    /\ parsed = <<>>

\* the whole of sendBatchReviewNotifications: the comments, then with the
\* webhook channel on the statistics, the sort of results and the POST; a
\* rejected comment call leaves the try block
SendBatchReviewNotifications ==
    /\ pc = "Notify"
    /\ npc = "batch"
    /\ \E k \in 0..(IF hasBatchApi(platform) THEN 1 ELSE Len(commentCalls(results))),
          res \in {"ok", "error"} :
          LET made == batchComments(platform, results, k) IN
          IF k # 0
          THEN /\ calls' = calls \o made
               /\ results' = results
          ELSE /\ results' = IF wecomEnabled(config) THEN sortByIssues(results) ELSE results
               /\ calls' = calls \o made
                     \o (IF wecomEnabled(config)
                         THEN sendWecomNotification("wecomBatch", <<>>, res).made
                         ELSE <<>>)
    /\ pc' = "Notified"
    /\ npc' = "none"
    /\ UNCHANGED <<config, diffs, filteredDiffs, idx, issueIdx, summary, returned, error,
                   platform, inflight, options, content, parsed>>

NextBatch == SendBatchReviewNotifications

SpecBatch == InitBatch /\ [][NextBatch]_vars

\* C30: a call of sendBatchReviewNotifications leaves the caller's list of
\* outcomes as it was: the same outcomes in the same order.
C30_ResultsUnchanged == [][results' = results]_vars

====
